---- MODULE Spec2Model ----
(***************************************************************************)
(* Workout-history synchronisation of trainheroic-dash.                    *)
(*                                                                         *)
(* The model covers src/src/workoutUtils.ts (lines 1-826, the current      *)
(* revision of the cache manager, getWorkoutHistory = "fullSync",          *)
(* fetchNewWorkouts = "incrementalRefresh", clearAllCaches) and the        *)
(* presentation layer's handlers that call them (src/src/App.tsx and its   *)
(* later revision src/unnamed/part_007).                                   *)
(*                                                                         *)
(* The remote API gateway and the browser's localStorage are the           *)
(* environment: every gateway call resolves with data, resolves without    *)
(* data, or throws; the remote history changes between passes.             *)
(***************************************************************************)
EXTENDS Integers, Sequences, FiniteSets, TLC

(***************************************************************************)
(* Bounds of the model.                                                    *)
(***************************************************************************)
\* exercises of the remote account in Spec: ids 1..SmallAccount
SmallAccount == 3
\* exercises of the remote account in SpecWide: ids 1..NumExercises
NumExercises == 9
\* sync operations started in one behaviour of Spec
MaxPasses == 3
\* the same in SpecWide and SpecStoreFault
FewPasses == 2
\* gateway calls that fail (throw, or resolve without data) in one behaviour
MaxFaults == 2
\* the same in SpecWide
WideFaults == 1
\* times the remote account gains a newly logged workout
MaxVer == 1
\* localStorage operations that throw in one behaviour (SpecStoreFault only)
MaxStoreFaults == 1
\* Reset Cache clicks in one behaviour
MaxClears == 1

(***************************************************************************)
(* Program constants.                                                      *)
(***************************************************************************)
\* workoutUtils.ts:215 and :720
MAX_CONCURRENT_REQUESTS == 5
\* workoutUtils.ts:318  threeDaysAgo.setDate(getDate() - 3)
RecentDays == 3

(***************************************************************************)
(* Values.  Calendar dates are day numbers (ISO date strings order the     *)
(* same way); 0 stands for a dateCompleted that is not a string.  A        *)
(* setNumber of -1 stands for one that is missing or not a number.  An id  *)
(* of 0 stands for an absent programWorkoutId.                             *)
(***************************************************************************)
NoDate == 0
NonNumeric == -1
NoId == 0
\* "1970-01-01", workoutUtils.ts:178
EpochFloor == 0

ExerciseIds == 1..NumExercises

\* an Exercise of the exercise list (api.ts getHistory): id and title
Exercise(e) == [id |-> e, title |-> e]

ExSet(n, reps, load) == [setNumber |-> n, rawValue1 |-> reps, rawValue2 |-> load]

Entry(d, has, sets, rm, pw) ==
    [dateCompleted |-> d, hasSets |-> has, sets |-> sets,
     bestEstimated1RM |-> rm, programWorkoutId |-> pw]

(***************************************************************************)
(* Sequence helpers.                                                       *)
(***************************************************************************)
Range(s) == {s[i] : i \in 1..Len(s)}

RECURSIVE FilterSeq(_, _)
\* Array.prototype.filter with the predicate given as the set of kept values
FilterSeq(s, keep) ==
    IF s = <<>> THEN <<>>
    ELSE IF Head(s) \in keep
         THEN <<Head(s)>> \o FilterSeq(Tail(s), keep)
         ELSE FilterSeq(Tail(s), keep)

RECURSIVE SetToSeqAsc(_)
SetToSeqAsc(S) ==
    IF S = {} THEN <<>>
    ELSE LET m == CHOOSE x \in S : \A y \in S : x <= y
         IN <<m>> \o SetToSeqAsc(S \ {m})

RECURSIVE SetToSeqDesc(_)
SetToSeqDesc(S) ==
    IF S = {} THEN <<>>
    ELSE LET m == CHOOSE x \in S : \A y \in S : x >= y
         IN <<m>> \o SetToSeqDesc(S \ {m})

(***************************************************************************)
(* The Workout Model Merger.                                               *)
(***************************************************************************)
\* a filter that keeps every set
validSetsOfUnfiltered(sets) == sets

\* workoutUtils.ts:513-515  sets.filter(set => typeof set.setNumber === "number")
validSetsOf(sets) ==
    FilterSeq(sets, {s \in Range(sets) : s.setNumber # NonNumeric})

\* a findIndex whose comparison never matches
findExerciseIndexNever(exercises, id) == 0

\* workoutUtils.ts:520-522  workout.exercises.findIndex(e => e.id === exercise.id)
\* 0 stands for findIndex's -1
findExerciseIndex(exercises, id) ==
    IF \E i \in 1..Len(exercises) : exercises[i].id = id
    THEN CHOOSE i \in 1..Len(exercises) :
             /\ exercises[i].id = id
             /\ \A j \in 1..(i - 1) : exercises[j].id # id
    ELSE 0

\* a merge in which the fetched WorkoutExercise replaces the one already there
addExerciseLastWins(workout, exercise, historyEntry) ==
    LET fetched == [id |-> exercise.id,
                    title |-> exercise.title,
                    sets |-> validSetsOf(historyEntry.sets),
                    bestEstimated1RM |-> historyEntry.bestEstimated1RM]
        at == findExerciseIndex(workout.exercises, exercise.id)
    IN IF at = 0
       THEN [workout EXCEPT !.exercises = Append(@, fetched)]
       ELSE [workout EXCEPT !.exercises[at] = fetched]

\* a merge that appends the fetched sets to the WorkoutExercise already there
addExerciseAppendsSets(workout, exercise, historyEntry) ==
    LET at == findExerciseIndex(workout.exercises, exercise.id) IN
    IF at = 0
    THEN [workout EXCEPT !.exercises =
             Append(@, [id |-> exercise.id,
                        title |-> exercise.title,
                        sets |-> validSetsOf(historyEntry.sets),
                        bestEstimated1RM |-> historyEntry.bestEstimated1RM])]
    ELSE [workout EXCEPT !.exercises[at].sets = @ \o validSetsOf(historyEntry.sets)]

\* workoutUtils.ts:524-535  push the WorkoutExercise unless the id is there
addExercise(workout, exercise, historyEntry) ==
    IF findExerciseIndex(workout.exercises, exercise.id) = 0
    THEN [workout EXCEPT !.exercises =
             Append(@, [id |-> exercise.id,
                        title |-> exercise.title,
                        sets |-> validSetsOf(historyEntry.sets),
                        bestEstimated1RM |-> historyEntry.bestEstimated1RM])]
    ELSE workout

\* workoutUtils.ts:498-538  one history entry of getWorkoutHistory's merge loop
mergeHistoryEntry(byDate, exercise, historyEntry) ==
    LET date == historyEntry.dateCompleted IN
    IF date = NoDate THEN byDate
    ELSE LET created ==
                 IF date \in DOMAIN byDate THEN byDate
                 ELSE byDate @@ (date :> [date |-> date,
                                          programWorkoutId |-> historyEntry.programWorkoutId,
                                          exercises |-> <<>>])
         IN IF historyEntry.hasSets
            THEN [created EXCEPT ![date] = addExercise(@, exercise, historyEntry)]
            ELSE created

\* workoutUtils.ts:774-803  one history entry of processWorkoutsFromExercises:
\* only dates already in the map take the exercise
mergeHistoryEntryKnownDate(byDate, exercise, historyEntry) ==
    LET date == historyEntry.dateCompleted IN
    IF date # NoDate /\ date \in DOMAIN byDate /\ historyEntry.hasSets
    THEN [byDate EXCEPT ![date] = addExercise(@, exercise, historyEntry)]
    ELSE byDate

RECURSIVE mergeHistory(_, _, _)
\* workoutUtils.ts:497  for (const historyEntry of exerciseHistory)
mergeHistory(byDate, exercise, history) ==
    IF history = <<>> THEN byDate
    ELSE mergeHistory(mergeHistoryEntry(byDate, exercise, Head(history)),
                      exercise, Tail(history))

RECURSIVE mergeHistoryKnownDate(_, _, _)
\* workoutUtils.ts:774  for (const historyEntry of exerciseHistory)
mergeHistoryKnownDate(byDate, exercise, history) ==
    IF history = <<>> THEN byDate
    ELSE mergeHistoryKnownDate(
             mergeHistoryEntryKnownDate(byDate, exercise, Head(history)),
             exercise, Tail(history))

RECURSIVE mergeResults(_, _)
\* workoutUtils.ts:493-540  for (const result of exerciseResults); a result is
\* [exercise, exerciseHistory]
mergeResults(byDate, results) ==
    IF results = <<>> THEN byDate
    ELSE mergeResults(
             mergeHistory(byDate, Head(results).exercise, Head(results).exerciseHistory),
             Tail(results))

RECURSIVE mergeBatchResults(_, _)
\* workoutUtils.ts:769-804  for (const result of batchResults)
mergeBatchResults(byDate, results) ==
    IF results = <<>> THEN byDate
    ELSE mergeBatchResults(
             mergeHistoryKnownDate(byDate, Head(results).exercise,
                                   Head(results).exerciseHistory),
             Tail(results))

RECURSIVE seedWorkouts(_, _)
\* workoutUtils.ts:210-212  existingWorkouts.forEach(w => workoutsByDate[w.date] = w)
seedWorkouts(byDate, existingWorkouts) ==
    IF existingWorkouts = <<>> THEN byDate
    ELSE LET w == Head(existingWorkouts) IN
         seedWorkouts(
             IF w.date \in DOMAIN byDate
             THEN [byDate EXCEPT ![w.date] = w]
             ELSE byDate @@ (w.date :> w),
             Tail(existingWorkouts))

\* the empty Record<string, Workout>
EmptyMap == [d \in {} |-> 0]

\* the map's workouts newest first, workouts without exercises kept
sortedWorkoutsUnfiltered(byDate) ==
    [k \in 1..Cardinality(DOMAIN byDate) |->
        byDate[SetToSeqDesc(DOMAIN byDate)[k]]]

\* the map's workouts with exercises, oldest first
sortedWorkoutsOldestFirst(byDate) ==
    LET kept == {d \in DOMAIN byDate : Len(byDate[d].exercises) > 0}
        order == SetToSeqAsc(kept)
    IN [i \in 1..Len(order) |-> byDate[order[i]]]

\* workoutUtils.ts:543-545 and :656-658  Object.values(map).filter(non-empty)
\* .sort(newest first)
sortedWorkouts(byDate) ==
    LET kept == {d \in DOMAIN byDate : Len(byDate[d].exercises) > 0}
        order == SetToSeqDesc(kept)
    IN [i \in 1..Len(order) |-> byDate[order[i]]]

(***************************************************************************)
(* The Local Persistent Store (localStorage).  A key is <<name, suffix>>;  *)
(* a value is <<>> (getItem returns null) or <<v>>.                        *)
(***************************************************************************)
\* workoutUtils.ts:13-18  CACHE_KEYS
CACHE_KEYS ==
    [AUTH |-> <<"trainheroic_auth_cache", 0>>,
     EXERCISES |-> <<"trainheroic_exercises_cache", 0>>,
     WORKOUTS |-> <<"trainheroic_workouts", 0>>]

\* workoutUtils.ts:16 and :79  `${EXERCISE_HISTORY_PREFIX}${exerciseId}`
historyKey(e) == <<"trainheroic_exercise_history_", e>>

\* App.tsx:15-18  STORAGE_KEYS.IS_AUTHENTICATED
IS_AUTHENTICATED == <<"trainheroic_is_authenticated", 0>>

\* a key of another application on the same origin
OtherKey == <<"theme", 0>>

AllKeys ==
    {CACHE_KEYS.AUTH, CACHE_KEYS.EXERCISES, CACHE_KEYS.WORKOUTS,
     IS_AUTHENTICATED, OtherKey} \cup {historyKey(e) : e \in ExerciseIds}

\* workoutUtils.ts:119-120  key.startsWith("trainheroic_")
startsWithAppPrefix(key) == key[1] # "theme"

AppKeys == {k \in AllKeys : startsWithAppPrefix(k)}

EmptyStore == [k \in AllKeys |-> IF k = OtherKey THEN <<"dark">> ELSE <<>>]

presentKeys(st) == {k \in AllKeys : st[k] # <<>>}

\* localStorage.setItem / removeItem; `throws` is the store raising (quota,
\* disabled storage)
setItem(st, key, value, throws) ==
    IF throws THEN st ELSE [st EXCEPT ![key] = <<value>>]

removeItem(st, key) == [st EXCEPT ![key] = <<>>]

\* workoutUtils.ts:25-35  saveToCache: the exception is caught and logged
saveToCache(st, key, data, now, throws) ==
    setItem(st, key, [timestamp |-> now, data |-> data], throws)

\* workoutUtils.ts:42-57  getFromCache: <<>> is null; a throwing read is null
getFromCache(st, key, throws) ==
    IF throws THEN <<>> ELSE st[key]

\* workoutUtils.ts:72-80  fetchWithCache's storage key
storageKey(cacheKey, cacheName) ==
    IF cacheName = "auth" THEN CACHE_KEYS.AUTH
    ELSE IF cacheName = "exercises" THEN CACHE_KEYS.EXERCISES
    ELSE historyKey(cacheKey)

(***************************************************************************)
(* clearAllCaches.  `order` is the order in which localStorage.key(i)      *)
(* enumerates the keys present (implementation-defined).                   *)
(***************************************************************************)
RECURSIVE RemoveAt(_, _)
RemoveAt(s, i) ==
    IF i = 1 THEN Tail(s) ELSE <<Head(s)>> \o RemoveAt(Tail(s), i - 1)

RECURSIVE clearLoop(_, _)
\* workoutUtils.ts:114-124  for (i = 0; i < localStorage.length; i++): the
\* list shrinks under the index when a key is removed
clearLoop(keys, i) ==
    IF i > Len(keys) THEN keys
    ELSE IF startsWithAppPrefix(keys[i])
         THEN clearLoop(RemoveAt(keys, i), i + 1)
         ELSE clearLoop(keys, i + 1)

\* a reset that empties the whole store (localStorage.clear())
clearAllCachesEverything(st, order) ==
    [k \in AllKeys |-> <<>>]

\* workoutUtils.ts:105-130
clearAllCaches(st, order) ==
    LET fixed == {CACHE_KEYS.AUTH, CACHE_KEYS.EXERCISES, CACHE_KEYS.WORKOUTS,
                  IS_AUTHENTICATED}
        rest == FilterSeq(order, Range(order) \ fixed)
        left == Range(clearLoop(rest, 1))
    IN [k \in AllKeys |-> IF k \in left THEN st[k] ELSE <<>>]

\* the enumeration orders the model draws: ascending and descending by
\* exercise id, the foreign key last or first
keyOrders(st) ==
    LET hist == {e \in ExerciseIds : st[historyKey(e)] # <<>>}
        others == FilterSeq(<<CACHE_KEYS.AUTH, CACHE_KEYS.EXERCISES, CACHE_KEYS.WORKOUTS,
                              IS_AUTHENTICATED, OtherKey>>, presentKeys(st))
        asc == SetToSeqAsc(hist)
        desc == SetToSeqDesc(hist)
    IN {[i \in 1..Len(asc) |-> historyKey(asc[i])] \o others,
        others \o [i \in 1..Len(desc) |-> historyKey(desc[i])]}

(***************************************************************************)
(* The Remote API Gateway: what the account holds at version v.  Version 0 *)
(* is the account at first login; from version 1 on a workout logged today *)
(* has been added and the oldest workout's sets of exercise 1 were edited. *)
(* Exercise 2's history holds an entry without a date, a set without a     *)
(* number and two entries of one date; exercise 3's entry has no sets.     *)
(***************************************************************************)
Today == RecentDays + 3
threeDaysAgo == Today - RecentDays
DOld == threeDaysAgo - 2
DMid == Today - 2
DRec == Today - 1

remoteWorkoutId(d) == 100 + d

\* api.ts getExerciseHistory: data.history of exercise e, newest first
remoteHistory(e, v) ==
    LET pw(d) == remoteWorkoutId(d)
        plain(d, load) == Entry(d, TRUE, <<ExSet(1, 5, load), ExSet(2, 3, load + 10)>>,
                                load + 50, pw(d))
        added == IF v >= 1 /\ e \in {1, 2} THEN <<plain(Today, 200 + e)>> ELSE <<>>
    IN added \o
       CASE e = 1 -> <<plain(DOld, IF v >= 1 THEN 315 ELSE 225)>>
         [] e = 2 -> <<Entry(NoDate, TRUE, <<ExSet(1, 1, 1)>>, 0, NoId),
                       Entry(DOld, TRUE, <<ExSet(NonNumeric, 5, 95), ExSet(2, 3, 100)>>,
                             120, pw(DOld)),
                       plain(DOld, 130)>>
         [] e = 3 -> <<Entry(DMid, FALSE, <<>>, 0, pw(DMid))>>
         [] OTHER -> <<plain(DRec, 100 + e)>>

\* api.ts getHistory: the exercise list of an account of n exercises
remoteExercises(n) == [e \in 1..n |-> Exercise(e)]

remoteDates(n, v) ==
    {d \in 1..Today : \E e \in 1..n : \E j \in 1..Len(remoteHistory(e, v)) :
        remoteHistory(e, v)[j].dateCompleted = d}

\* api.ts getRecentWorkouts: the program workouts dated startDate..today,
\* each with its id and, when withStats, its exercise_stats
remoteRange(n, v, startDate, withStats) ==
    LET dates == SetToSeqAsc({d \in remoteDates(n, v) : d >= startDate})
        stats(d) == SetToSeqAsc({e \in 1..n :
                        \E j \in 1..Len(remoteHistory(e, v)) :
                            remoteHistory(e, v)[j].dateCompleted = d})
    IN [i \in 1..Len(dates) |->
           [id |-> remoteWorkoutId(dates[i]), date |-> dates[i],
            exercise_stats |-> IF withStats THEN stats(dates[i]) ELSE <<>>]]

(***************************************************************************)
(* State.                                                                  *)
(***************************************************************************)
VARIABLES
    store,            \* localStorage
    account,          \* number of exercises of the remote account
    remoteVer,        \* version of the remote account's data
    passes,           \* sync operations started so far
    passLimit,        \* how many may start in this behaviour
    faults,           \* gateway calls that failed so far
    faultLimit,       \* how many may fail in this behaviour
    storeFaults,      \* localStorage operations that threw so far
    storeFaultLimit,  \* how many may throw in this behaviour
    clears,           \* Reset Cache clicks so far
    pc,               \* where the running sync operation waits
    op,               \* "none", "fullSync" (getWorkoutHistory), "refresh" (fetchNewWorkouts)
    caller,           \* the handler that started it
    credentials,      \* the email and password passed to the running getWorkoutHistory
    sessionToken,     \* session token in use (0: none)
    userId,           \* user id in use (0: none)
    existingWorkouts, \* getWorkoutHistory's existingWorkouts
    exercises,        \* the exercise list / the exercises to process
    recentWorkouts,   \* the range query's result
    workoutsByDate,   \* the date-keyed map being built
    batchStart,       \* the batch loop's i
    inflight,         \* positions (1-based) in `exercises` with a detail request outstanding
    batchResults,     \* results of the current batch, by position
    exerciseResults,  \* getWorkoutHistory's results of the completed batches
    batches,          \* batches dispatched in this pass
    requested,        \* exercise ids whose detail was requested in this pass, in order
    gatewayDetail,    \* what the gateway answered per exercise in this pass
    calls,            \* gateway calls issued in this pass, by operation
    reported,         \* progress values reported in this pass
    throwsAt,         \* the progress values at which the caller's onProgress throws
    result,           \* the list the operation returned
    storeAtStart,     \* the store when the pass started
    writes,           \* per key, the writes and removals the running operation made
    workouts,         \* the App's held workouts (React state)
    workoutsAtClick,  \* the `workouts` the running handler closed over
    isAuthenticated,  \* the App's isAuthenticated
    cacheCall,        \* the arguments of a fetchWithCache call on its own
    appCalls          \* the App's loading flags and the sync calls it awaits, on their own

vars ==
    <<store, account, remoteVer, passes, passLimit, faults, faultLimit, storeFaults, storeFaultLimit, clears, pc, op,
      caller, credentials, sessionToken, userId, existingWorkouts, exercises, recentWorkouts, workoutsByDate,
      batchStart, inflight, batchResults, exerciseResults, batches, requested,
      gatewayDetail, calls, reported, throwsAt, result, storeAtStart, writes, workouts,
      workoutsAtClick, isAuthenticated, cacheCall, appCalls>>

\* the state as one record, so that a handler's synchronous stretch is a
\* composition of functions on it
World ==
    [store |-> store, account |-> account, remoteVer |-> remoteVer, passes |-> passes,
     passLimit |-> passLimit,
     faults |-> faults, faultLimit |-> faultLimit,
     storeFaults |-> storeFaults, storeFaultLimit |-> storeFaultLimit, clears |-> clears,
     pc |-> pc, op |-> op, caller |-> caller,
     credentials |-> credentials, sessionToken |-> sessionToken, userId |-> userId,
     existingWorkouts |-> existingWorkouts, exercises |-> exercises,
     recentWorkouts |-> recentWorkouts, workoutsByDate |-> workoutsByDate,
     batchStart |-> batchStart, inflight |-> inflight, batchResults |-> batchResults,
     exerciseResults |-> exerciseResults, batches |-> batches, requested |-> requested,
     gatewayDetail |-> gatewayDetail, calls |-> calls, reported |-> reported,
     throwsAt |-> throwsAt,
     result |-> result, storeAtStart |-> storeAtStart, writes |-> writes,
     workouts |-> workouts,
     workoutsAtClick |-> workoutsAtClick, isAuthenticated |-> isAuthenticated,
     cacheCall |-> cacheCall, appCalls |-> appCalls]

Becomes(w) ==
    /\ store' = w.store
    /\ account' = w.account
    /\ remoteVer' = w.remoteVer
    /\ passes' = w.passes
    /\ passLimit' = w.passLimit
    /\ faults' = w.faults
    /\ faultLimit' = w.faultLimit
    /\ storeFaults' = w.storeFaults
    /\ storeFaultLimit' = w.storeFaultLimit
    /\ clears' = w.clears
    /\ pc' = w.pc
    /\ op' = w.op
    /\ caller' = w.caller
    /\ credentials' = w.credentials
    /\ sessionToken' = w.sessionToken
    /\ userId' = w.userId
    /\ existingWorkouts' = w.existingWorkouts
    /\ exercises' = w.exercises
    /\ recentWorkouts' = w.recentWorkouts
    /\ workoutsByDate' = w.workoutsByDate
    /\ batchStart' = w.batchStart
    /\ inflight' = w.inflight
    /\ batchResults' = w.batchResults
    /\ exerciseResults' = w.exerciseResults
    /\ batches' = w.batches
    /\ requested' = w.requested
    /\ gatewayDetail' = w.gatewayDetail
    /\ calls' = w.calls
    /\ reported' = w.reported
    /\ throwsAt' = w.throwsAt
    /\ result' = w.result
    /\ storeAtStart' = w.storeAtStart
    /\ writes' = w.writes
    /\ workouts' = w.workouts
    /\ workoutsAtClick' = w.workoutsAtClick
    /\ isAuthenticated' = w.isAuthenticated
    /\ cacheCall' = w.cacheCall
    /\ appCalls' = w.appCalls

NoCalls ==
    [authenticate |-> 0, listKnownExercises |-> 0, listWorkoutsInRange |-> 0,
     fetchExerciseDetail |-> 0]

NoDetail == [e \in ExerciseIds |-> "none"]

NoWrites == [k \in AllKeys |-> 0]

\* no fetchWithCache call is being followed on its own
NoCacheCall == [cacheKey |-> 0, cacheName |-> "none"]

\* App.tsx:23 and :28  authLoading and dataLoading start false; no sync call
\* is awaited
NoAppCalls == [authLoading |-> FALSE, dataLoading |-> FALSE, inFlight |-> <<>>]

\* no getWorkoutHistory is running
NoCredentials == "none"

\* App.tsx:77-79 and :104-106  what the login form may hand over: the
\* account's email and password, or ones the gateway does not accept
Credentials == {"athlete", "stranger"}

\* App.tsx:159-161  handleRefresh passes an empty email and password
EmptyCredentials == "empty"

\* the session the gateway's authenticate returns: {session_id, id}
RemoteSession == [session_id |-> 1, id |-> 7]

\* the initial states for an account of n exercises, the limits of the
\* behaviour and the onProgress callbacks the callers may pass, each given by
\* the set of values at which it throws
InitReporting(n, syncLimit, gatewayLimit, storeLimit, callbacks) ==
    /\ store = EmptyStore
    /\ account = n
    /\ remoteVer \in 0..MaxVer
    /\ passes = 0
    /\ passLimit = syncLimit
    /\ faults = 0
    /\ faultLimit = gatewayLimit
    /\ storeFaults = 0
    /\ storeFaultLimit = storeLimit
    /\ clears = 0
    /\ pc = "idle"
    /\ op = "none"
    /\ caller = "none"
    /\ credentials = NoCredentials
    /\ sessionToken = 0
    /\ userId = 0
    /\ existingWorkouts = <<>>
    /\ exercises = <<>>
    /\ recentWorkouts = <<>>
    /\ workoutsByDate = EmptyMap
    /\ batchStart = 0
    /\ inflight = {}
    /\ batchResults = EmptyMap
    /\ exerciseResults = <<>>
    /\ batches = 0
    /\ requested = <<>>
    /\ gatewayDetail = NoDetail
    /\ calls = NoCalls
    /\ reported = {}
    /\ throwsAt \in callbacks
    /\ result = <<>>
    /\ storeAtStart = EmptyStore
    /\ writes = NoWrites
    /\ workouts = <<>>
    /\ workoutsAtClick = <<>>
    /\ isAuthenticated = FALSE
    /\ cacheCall = NoCacheCall
    /\ appCalls = NoAppCalls

\* the App's callback is setLoadingProgress, which does not throw
InitWith(n, syncLimit, gatewayLimit, storeLimit) ==
    InitReporting(n, syncLimit, gatewayLimit, storeLimit, {{}})

Init == InitWith(SmallAccount, MaxPasses, MaxFaults, 0)

(***************************************************************************)
(* Environment choices.                                                    *)
(***************************************************************************)
\* the localStorage operations of one synchronous stretch that throw
StoreSites ==
    {"auth.get", "auth.set", "workouts.get", "exercises.get", "exercises.set",
     "exercises.remove", "history.get", "history.set", "workouts.set"}

storeFaultChoices(sites) ==
    {{}} \cup (IF storeFaults < storeFaultLimit THEN {{s} : s \in sites} ELSE {})

\* a gateway call resolves with data, resolves without data, or throws
gatewayOutcomes ==
    {"ok"} \cup (IF faults < faultLimit THEN {"nodata", "throw"} ELSE {})

\* the range query resolves with the workouts in range (with or without their
\* exercise_stats), with none, or throws
rangeOutcomes ==
    {"ok", "nostats", "empty"} \cup (IF faults < faultLimit THEN {"throw"} ELSE {})

\* api.ts auth: the gateway accepts the account's email and password only;
\* for others it answers without data
authOutcomes ==
    IF credentials = "athlete" THEN gatewayOutcomes
    ELSE {"denied"} \cup (IF faults < faultLimit THEN {"throw"} ELSE {})

charge(w, outcome, sf) ==
    [w EXCEPT !.faults = @ + (IF outcome \in {"nodata", "throw"} THEN 1 ELSE 0),
              !.storeFaults = @ + Cardinality(sf)]

\* onProgress?.(p)
report(w, p) == [w EXCEPT !.reported = @ \cup {p}]

\* onProgress?.(p) throws
reporterThrows(w, p) == p \in w.throwsAt

\* the exception leaves the async function: its promise rejects
rejects(w) == [w EXCEPT !.pc = "rejected"]

called(w, operation) == [w EXCEPT !.calls[operation] = @ + 1]

\* the running operation changes the store to st by a write or removal of key
\* (not counted when the store threw)
stored(w, st, key, throws) ==
    [w EXCEPT !.store = st, !.writes[key] = @ + (IF throws THEN 0 ELSE 1)]

(***************************************************************************)
(* getWorkoutHistory (fullSync), workoutUtils.ts:139-555.  Each operator   *)
(* below is one synchronous stretch of the function, from one await to the *)
(* next; sf is the set of store operations that throw in it.               *)
(***************************************************************************)
\* a slice that takes one position too many
positionsOfBatchOneMore(exs, i) ==
    {k \in 1..Len(exs) : k > i /\ k <= i + MAX_CONCURRENT_REQUESTS + 1}

\* workoutUtils.ts:475-476 and :728-729  the positions of slice(i, i + MAX)
positionsOfBatch(exs, i) ==
    {k \in 1..Len(exs) : k > i /\ k <= i + MAX_CONCURRENT_REQUESTS}

\* workoutUtils.ts:473-479 and :727-730  slice(i, i + MAX).map(...): the
\* batch's requests are issued together
dispatchBatch(w, i) ==
    LET batch == positionsOfBatch(w.exercises, i)
        ids == [k \in 1..Cardinality(batch) |-> w.exercises[i + k].id]
    IN [w EXCEPT !.batchStart = i,
                 !.inflight = @ \cup batch,
                 !.batchResults = EmptyMap,
                 !.batches = @ + 1,
                 !.requested = @ \o ids,
                 !.calls.fetchExerciseDetail = @ + Cardinality(batch),
                 !.pc = "detail"]

\* a last step that returns the merged list without saving it
finishFullSyncUnsaved(w, sf) ==
    LET merged == mergeResults(w.workoutsByDate, w.exerciseResults)
        allWorkouts == sortedWorkouts(merged)
    IN [w EXCEPT !.workoutsByDate = merged,
                 !.result = allWorkouts,
                 !.pc = "returned"]

\* workoutUtils.ts:492-554  merge, drop empty workouts, sort, persist, return
finishFullSync(w, sf) ==
    LET merged == mergeResults(w.workoutsByDate, w.exerciseResults)
        allWorkouts == sortedWorkouts(merged)
    IN [stored(w, setItem(w.store, CACHE_KEYS.WORKOUTS, allWorkouts, "workouts.set" \in sf),
               CACHE_KEYS.WORKOUTS, "workouts.set" \in sf)
           EXCEPT !.workoutsByDate = merged,
                  !.result = allWorkouts,
                  !.pc = "returned"]

\* workoutUtils.ts:470-490  processExercisesInBatches, entered
startBatches(w, sf) ==
    LET w1 == [w EXCEPT !.exerciseResults = <<>>]
    IN IF Len(w.exercises) = 0 THEN finishFullSync(w1, sf) ELSE dispatchBatch(w1, 0)

\* a most recent date taken from the end of the list
mostRecentDateOfLast(list) ==
    IF Len(list) > 0 THEN list[Len(list)].date ELSE EpochFloor

\* workoutUtils.ts:178-185  mostRecentDate = existingWorkouts[0].date
mostRecentDateOf(list) ==
    IF Len(list) > 0 THEN list[1].date ELSE EpochFloor

\* a step that asks for the recent workouts with or without cached workouts
afterExerciseListAlwaysRange(w, sf) ==
    LET w1 == [report(w, 20) EXCEPT
                  !.workoutsByDate = seedWorkouts(EmptyMap, w.existingWorkouts)]
    IN IF reporterThrows(w, 20) THEN rejects(report(w, 20))
       ELSE IF reporterThrows(w, 30) THEN startBatches(report(w1, 30), sf)
       ELSE [called(report(w1, 30), "listWorkoutsInRange") EXCEPT !.pc = "range"]

\* workoutUtils.ts:201-249  after the exercise list is known
afterExerciseList(w, sf) ==
    LET w1 == [report(w, 20) EXCEPT
                  !.workoutsByDate = seedWorkouts(EmptyMap, w.existingWorkouts)]
    IN IF reporterThrows(w, 20) THEN rejects(report(w, 20))
       ELSE IF Len(w.existingWorkouts) = 0 THEN startBatches(w1, sf)
       ELSE IF reporterThrows(w, 30) THEN startBatches(report(w1, 30), sf)
       ELSE [called(report(w1, 30), "listWorkoutsInRange") EXCEPT !.pc = "range"]

\* workoutUtils.ts:159-199  after authentication: load the cached workouts,
\* then the exercise list, cache first
afterAuth(w, authData, sf) ==
    LET cachedWorkouts == IF "workouts.get" \in sf THEN <<>>
                          ELSE w.store[CACHE_KEYS.WORKOUTS]
        existing == IF cachedWorkouts = <<>> THEN <<>> ELSE cachedWorkouts[1]
        w1 == [report(w, 10) EXCEPT !.sessionToken = authData.session_id,
                                    !.userId = authData.id,
                                    !.existingWorkouts = existing]
        cached == getFromCache(w.store, storageKey("exercises-list", "exercises"),
                               "exercises.get" \in sf)
    IN IF reporterThrows(w, 10) THEN rejects(report(w, 10))
       ELSE IF cached # <<>>
       THEN afterExerciseList([w1 EXCEPT !.exercises = cached[1].data], sf)
       ELSE [called(w1, "listKnownExercises") EXCEPT !.pc = "exerciseList"]

\* a call that authenticates without looking for a cached session
startFullSyncAlwaysAuthenticates(w, sf) ==
    LET w1 == report(w, 0)
    IN IF reporterThrows(w, 0) THEN rejects(w1)
       ELSE [called(w1, "authenticate") EXCEPT !.pc = "auth"]

\* workoutUtils.ts:139-157  the call: progress 0, then authentication, cache
\* first
startFullSync(w, sf) ==
    LET w1 == report(w, 0)
        cached == getFromCache(w.store, storageKey(w.credentials, "auth"), "auth.get" \in sf)
    IN IF reporterThrows(w, 0) THEN rejects(w1)
       ELSE IF cached # <<>>
       THEN afterAuth(w1, cached[1].data, sf)
       ELSE [called(w1, "authenticate") EXCEPT !.pc = "auth"]

\* an authenticate step that caches the session before looking at the outcome
authResolvedCachesFirst(w, outcome, sf) ==
    LET w1 == stored(w, saveToCache(w.store, CACHE_KEYS.AUTH, RemoteSession, w.passes,
                                    "auth.set" \in sf),
                     CACHE_KEYS.AUTH, "auth.set" \in sf)
    IN IF outcome = "ok"
       THEN afterAuth(w1, RemoteSession, sf)
       ELSE [w1 EXCEPT !.pc = "rejected"]

\* workoutUtils.ts:150-157 with :93-98  authenticate has resolved or thrown
authResolved(w, outcome, sf) ==
    IF outcome = "ok"
    THEN afterAuth(stored(w, saveToCache(w.store, CACHE_KEYS.AUTH, RemoteSession, w.passes,
                                         "auth.set" \in sf),
                          CACHE_KEYS.AUTH, "auth.set" \in sf),
                   RemoteSession, sf)
    ELSE [w EXCEPT !.pc = "rejected"]

\* a first getHistory step that absorbs the failure and goes on without a list
exerciseListResolvedAbsorbs(w, outcome, sf) ==
    IF outcome = "ok"
    THEN afterExerciseList(
             [stored(w, saveToCache(w.store, CACHE_KEYS.EXERCISES,
                                    remoteExercises(w.account), w.passes,
                                    "exercises.set" \in sf),
                     CACHE_KEYS.EXERCISES, "exercises.set" \in sf)
                 EXCEPT !.exercises = remoteExercises(w.account)], sf)
    ELSE afterExerciseList([w EXCEPT !.exercises = <<>>], sf)

\* workoutUtils.ts:188-199 with :93-98  the first getHistory has resolved or
\* thrown; a failure is not caught
exerciseListResolved(w, outcome, sf) ==
    IF outcome = "ok"
    THEN afterExerciseList(
             [stored(w, saveToCache(w.store, CACHE_KEYS.EXERCISES,
                                    remoteExercises(w.account), w.passes,
                                    "exercises.set" \in sf),
                     CACHE_KEYS.EXERCISES, "exercises.set" \in sf)
                 EXCEPT !.exercises = remoteExercises(w.account)], sf)
    ELSE [w EXCEPT !.pc = "rejected"]

\* a range step that invalidates the exercise list before it looks at the
\* answer
rangeResolvedInvalidatesFirst(w, outcome, sf) ==
    LET data == IF outcome \in {"ok", "nostats"}
                THEN remoteRange(w.account, w.remoteVer,
                                 mostRecentDateOf(w.existingWorkouts),
                                 outcome = "ok")
                ELSE <<>>
        w1 == stored(w, removeItem(w.store, CACHE_KEYS.EXERCISES),
                     CACHE_KEYS.EXERCISES, FALSE)
    IN IF outcome = "throw" THEN startBatches(w, sf)
       ELSE IF Len(data) = 0
       THEN [report(w1, 100) EXCEPT !.result = w.existingWorkouts, !.pc = "returned"]
       ELSE [called(w1, "listKnownExercises")
                EXCEPT !.recentWorkouts = data, !.pc = "exerciseListAgain"]

\* a range step for which a failed getRecentWorkouts is fatal
rangeResolvedFatal(w, outcome, sf) ==
    LET data == IF outcome \in {"ok", "nostats"}
                THEN remoteRange(w.account, w.remoteVer,
                                 mostRecentDateOf(w.existingWorkouts),
                                 outcome = "ok")
                ELSE <<>>
    IN IF outcome = "throw" THEN rejects(w)
       ELSE IF Len(data) = 0
       THEN IF reporterThrows(w, 100) THEN startBatches(report(w, 100), sf)
            ELSE [report(w, 100) EXCEPT !.result = w.existingWorkouts, !.pc = "returned"]
       ELSE IF "exercises.remove" \in sf
       THEN startBatches([w EXCEPT !.recentWorkouts = data], sf)
       ELSE [called(stored(w, removeItem(w.store, CACHE_KEYS.EXERCISES),
                           CACHE_KEYS.EXERCISES, FALSE),
                    "listKnownExercises")
                EXCEPT !.recentWorkouts = data, !.pc = "exerciseListAgain"]

\* workoutUtils.ts:245-300  getRecentWorkouts has resolved or thrown
rangeResolved(w, outcome, sf) ==
    LET data == IF outcome \in {"ok", "nostats"}
                THEN remoteRange(w.account, w.remoteVer,
                                 mostRecentDateOf(w.existingWorkouts),
                                 outcome = "ok")
                ELSE <<>>
    IN IF outcome = "throw" THEN startBatches(w, sf)
       ELSE IF Len(data) = 0
       THEN IF reporterThrows(w, 100) THEN startBatches(report(w, 100), sf)
            ELSE [report(w, 100) EXCEPT !.result = w.existingWorkouts, !.pc = "returned"]
       ELSE IF "exercises.remove" \in sf
       THEN startBatches([w EXCEPT !.recentWorkouts = data], sf)
       ELSE [called(stored(w, removeItem(w.store, CACHE_KEYS.EXERCISES),
                           CACHE_KEYS.EXERCISES, FALSE),
                    "listKnownExercises")
                EXCEPT !.recentWorkouts = data, !.pc = "exerciseListAgain"]

RECURSIVE usedExercises(_, _, _)
\* workoutUtils.ts:342-363 and :690-704  the exercises of `list` that the
\* workouts' exercise_stats name, in first-use order (a Map keyed by id)
usedExercises(workoutsToProcess, list, acc) ==
    IF workoutsToProcess = <<>> THEN acc
    ELSE LET stats == Head(workoutsToProcess).exercise_stats
             found == FilterSeq(stats, {x \in Range(stats) :
                                   \E j \in 1..Len(list) : list[j].id = x})
             fresh == [k \in 1..Len(found) |->
                          list[CHOOSE j \in 1..Len(list) :
                                   /\ list[j].id = found[k]
                                   /\ \A h \in 1..(j - 1) : list[h].id # found[k]]]
             RECURSIVE add(_, _)
             add(a, fs) ==
                 IF fs = <<>> THEN a
                 ELSE IF \E j \in 1..Len(a) : a[j].id = Head(fs).id
                      THEN add(a, Tail(fs))
                      ELSE add(Append(a, Head(fs)), Tail(fs))
         IN usedExercises(Tail(workoutsToProcess), list, add(acc, fresh))

\* a choice of exercises that looks only at the workouts not yet cached
exercisesToFetchOfNewOnly(existing, recent, list) ==
    LET existingWorkoutIds == {existing[j].programWorkoutId : j \in 1..Len(existing)}
                                  \ {NoId}
        newWorkouts == FilterSeq(recent, {r \in Range(recent) : r.id \notin existingWorkoutIds})
        used == usedExercises(newWorkouts, list, <<>>)
    IN IF Len(used) > 0 THEN used ELSE list

\* workoutUtils.ts:267-276 and :316-379  the exercises to fetch on the
\* incremental path
exercisesToFetchOf(existing, recent, list) ==
    LET existingWorkoutIds == {existing[j].programWorkoutId : j \in 1..Len(existing)}
                                  \ {NoId}
        newWorkouts == FilterSeq(recent, {r \in Range(recent) : r.id \notin existingWorkoutIds})
        recentWorkoutsToCheck ==
            FilterSeq(recent, {r \in Range(recent) : r.date >= threeDaysAgo})
        used == usedExercises(newWorkouts \o recentWorkoutsToCheck, list, <<>>)
    IN IF Len(used) > 0 THEN used ELSE list

\* workoutUtils.ts:288-387  the second getHistory has resolved or thrown; a
\* failure is caught at :383
exerciseListAgainResolved(w, outcome, sf) ==
    IF outcome = "ok"
    THEN startBatches(
             [stored(w, saveToCache(w.store, CACHE_KEYS.EXERCISES,
                                    remoteExercises(w.account), w.passes,
                                    "exercises.set" \in sf),
                     CACHE_KEYS.EXERCISES, "exercises.set" \in sf)
                 EXCEPT !.exercises = exercisesToFetchOf(w.existingWorkouts,
                                                         w.recentWorkouts,
                                                         remoteExercises(w.account))],
             sf)
    ELSE startBatches(w, sf)

\* workoutUtils.ts:427-428  40 + floor(60 * (index + 1) / exercises.length)
progressPercentOf(position, n) == 40 + ((60 * position) \div n)

\* a processExercise whose failure path never looks at the cached history
processExerciseNoFallback(w, position, outcome, sf) ==
    LET exercise == w.exercises[position]
        key == historyKey(exercise.id)
        exerciseHistory == remoteHistory(exercise.id, w.remoteVer)
        progressed == report(w, progressPercentOf(position, Len(w.exercises)))
        done(v, h) == [v EXCEPT !.batchResults = @ @@ (position :>
                          <<[exercise |-> exercise, exerciseHistory |-> h]>>),
                                !.inflight = @ \ {position},
                                !.gatewayDetail[exercise.id] = outcome]
    IN IF outcome = "ok"
       THEN done(stored(progressed,
                        saveToCache(w.store, key, exerciseHistory, w.passes,
                                    "history.set" \in sf),
                        key, "history.set" \in sf),
                 exerciseHistory)
       ELSE IF outcome = "nodata" THEN done(w, <<>>)
       ELSE done(progressed, <<>>)

\* a processExercise that keeps every history under the first exercise's key
processExerciseSharedKey(w, position, outcome, sf) ==
    LET exercise == w.exercises[position]
        key == historyKey(w.exercises[1].id)
        exerciseHistory == remoteHistory(exercise.id, w.remoteVer)
        progressed == report(w, progressPercentOf(position, Len(w.exercises)))
        cachedHistory == getFromCache(w.store, key, "history.get" \in sf)
        done(v, h) == [v EXCEPT !.batchResults = @ @@ (position :>
                          <<[exercise |-> exercise, exerciseHistory |-> h]>>),
                                !.inflight = @ \ {position},
                                !.gatewayDetail[exercise.id] = outcome]
        saved == stored(progressed,
                        saveToCache(w.store, key, exerciseHistory, w.passes,
                                    "history.set" \in sf),
                        key, "history.set" \in sf)
        thrown == reporterThrows(w, progressPercentOf(position, Len(w.exercises)))
    IN IF outcome = "ok"
       THEN IF thrown THEN rejects(saved) ELSE done(saved, exerciseHistory)
       ELSE IF outcome = "nodata" THEN done(w, <<>>)
       ELSE IF thrown THEN rejects(progressed)
       ELSE IF cachedHistory # <<>> THEN done(progressed, cachedHistory[1].data)
       ELSE done(progressed, <<>>)

\* workoutUtils.ts:390-467  processExercise for the exercise at `position`,
\* once getExerciseHistory has resolved or thrown.  An onProgress that throws
\* at :429 is caught at :432, throws again at :449 (caught at :453) or at
\* :463, and there leaves processExercise: Promise.all rejects, and with it
\* getWorkoutHistory (the batch's other requests are abandoned)
processExercise(w, position, outcome, sf) ==
    LET exercise == w.exercises[position]
        key == historyKey(exercise.id)
        exerciseHistory == remoteHistory(exercise.id, w.remoteVer)
        progressed == report(w, progressPercentOf(position, Len(w.exercises)))
        cachedHistory == getFromCache(w.store, key, "history.get" \in sf)
        done(v, h) == [v EXCEPT !.batchResults = @ @@ (position :>
                          <<[exercise |-> exercise, exerciseHistory |-> h]>>),
                                !.inflight = @ \ {position},
                                !.gatewayDetail[exercise.id] = outcome]
        saved == stored(progressed,
                        saveToCache(w.store, key, exerciseHistory, w.passes,
                                    "history.set" \in sf),
                        key, "history.set" \in sf)
        thrown == reporterThrows(w, progressPercentOf(position, Len(w.exercises)))
    IN IF outcome = "ok"
       THEN IF thrown THEN rejects(saved) ELSE done(saved, exerciseHistory)
       ELSE IF outcome = "nodata" THEN done(w, <<>>)
       ELSE IF thrown THEN rejects(progressed)
       ELSE IF cachedHistory # <<>> THEN done(progressed, cachedHistory[1].data)
       ELSE done(progressed, <<>>)

\* the results of a batch in dispatch order, nulls dropped
batchResultsInOrder(w) ==
    LET n == Cardinality(positionsOfBatch(w.exercises, w.batchStart))
        RECURSIVE collect(_)
        collect(k) ==
            IF k > n THEN <<>>
            ELSE w.batchResults[w.batchStart + k] \o collect(k + 1)
    IN collect(1)

\* workoutUtils.ts:482-486  Promise.all has resolved: keep the results, go on
\* to the next batch or leave the loop
batchResolved(w, sf) ==
    LET w1 == [w EXCEPT !.exerciseResults = @ \o batchResultsInOrder(w)]
        next == w.batchStart + MAX_CONCURRENT_REQUESTS
    IN IF next < Len(w.exercises) THEN dispatchBatch(w1, next)
       ELSE finishFullSync(w1, sf)

\* a batch whose Promise.all is never joined: the last answer is processed
\* and the loop does not go on
detailResolvedNeverJoins(w, position, outcome, sf) ==
    processExercise(w, position, outcome, sf)

\* one detail request of the running batch is answered
detailResolved(w, position, outcome, sf) ==
    LET w1 == processExercise(w, position, outcome, sf)
    IN IF w1.pc = "rejected" THEN w1
       ELSE IF w1.inflight = {} THEN batchResolved(w1, sf)
       ELSE w1

(***************************************************************************)
(* fetchNewWorkouts (incrementalRefresh), workoutUtils.ts:585-667, and its *)
(* helper processWorkoutsFromExercises, :677-806.                          *)
(***************************************************************************)
\* a refresh that persists the list it returns
finishRefreshPersists(w) ==
    IF reporterThrows(w, 100) THEN rejects(report(w, 100))
    ELSE [stored(report(w, 100),
                 setItem(w.store, CACHE_KEYS.WORKOUTS, sortedWorkouts(w.workoutsByDate), FALSE),
                 CACHE_KEYS.WORKOUTS, FALSE)
             EXCEPT !.result = sortedWorkouts(w.workoutsByDate), !.pc = "returned"]

\* workoutUtils.ts:654-661  filter, sort, progress 100, return
finishRefresh(w) ==
    IF reporterThrows(w, 100) THEN rejects(report(w, 100))
    ELSE [report(w, 100) EXCEPT !.result = sortedWorkouts(w.workoutsByDate),
                                !.pc = "returned"]

\* workoutUtils.ts:619-623, :633-637 and :662-666  the early returns; an
\* onProgress(100) that throws inside the try throws again in the catch
refreshReturnsEmpty(w) ==
    IF reporterThrows(w, 100) THEN rejects(report(w, 100))
    ELSE [report(w, 100) EXCEPT !.result = <<>>, !.pc = "returned"]

\* workoutUtils.ts:585-615  the call
startRefresh(w, token) ==
    IF token = 0
    THEN [w EXCEPT !.result = <<>>, !.pc = "returned"]
    ELSE IF reporterThrows(w, 10) THEN rejects(report(w, 10))
    ELSE [called(report(w, 10), "listWorkoutsInRange")
             EXCEPT !.sessionToken = token, !.pc = "range"]

\* a range step that goes on to the exercise list with an empty answer
refreshRangeResolvedGoesOn(w, outcome) ==
    LET data == IF outcome \in {"ok", "nostats"}
                THEN remoteRange(w.account, w.remoteVer,
                                 mostRecentDateOf(w.workoutsAtClick),
                                 outcome = "ok")
                ELSE <<>>
    IN IF outcome = "throw" THEN refreshReturnsEmpty(w)
       ELSE IF reporterThrows(w, 30) THEN refreshReturnsEmpty(report(w, 30))
       ELSE [called(report(w, 30), "listKnownExercises")
                EXCEPT !.recentWorkouts = data, !.pc = "exerciseList"]

\* workoutUtils.ts:611-640  getRecentWorkouts has resolved or thrown
refreshRangeResolved(w, outcome) ==
    LET data == IF outcome \in {"ok", "nostats"}
                THEN remoteRange(w.account, w.remoteVer,
                                 mostRecentDateOf(w.workoutsAtClick),
                                 outcome = "ok")
                ELSE <<>>
    IN IF outcome = "throw" THEN refreshReturnsEmpty(w)
       ELSE IF reporterThrows(w, 30) \/ Len(data) = 0 THEN refreshReturnsEmpty(report(w, 30))
       ELSE [called(report(w, 30), "listKnownExercises")
                EXCEPT !.recentWorkouts = data, !.pc = "exerciseList"]

RECURSIVE prepopulate(_, _)
\* workoutUtils.ts:706-716  a map entry for every workout that has
\* exercise_stats
prepopulate(byDate, list) ==
    IF list = <<>> THEN byDate
    ELSE LET workout == Head(list) IN
         prepopulate(
             IF /\ workout.date # NoDate
                /\ Len(workout.exercise_stats) > 0
                /\ workout.date \notin DOMAIN byDate
             THEN byDate @@ (workout.date :> [date |-> workout.date,
                                              programWorkoutId |-> workout.id,
                                              exercises |-> <<>>])
             ELSE byDate,
             Tail(list))

\* a refresh whose getHistory failure leaves the function as an exception
refreshExerciseListResolvedRethrows(w, outcome) ==
    IF outcome # "ok" THEN rejects(w)
    ELSE IF reporterThrows(w, 50) THEN refreshReturnsEmpty(report(w, 50))
    ELSE LET w1 == report(w, 50)
             list == remoteExercises(w.account)
         IN IF Len(w.recentWorkouts) = 0 \/ Len(list) = 0
            THEN finishRefresh([w1 EXCEPT !.workoutsByDate = EmptyMap])
            ELSE LET w2 == [w1 EXCEPT
                               !.exercises = usedExercises(w.recentWorkouts, list, <<>>),
                               !.workoutsByDate = prepopulate(EmptyMap, w.recentWorkouts)]
                 IN IF Len(w2.exercises) = 0 THEN finishRefresh(w2)
                    ELSE dispatchBatch(w2, 0)

\* workoutUtils.ts:631-652 with :684-730  getHistory has resolved or thrown;
\* on data, processWorkoutsFromExercises starts
refreshExerciseListResolved(w, outcome) ==
    IF outcome # "ok" THEN refreshReturnsEmpty(w)
    ELSE IF reporterThrows(w, 50) THEN refreshReturnsEmpty(report(w, 50))
    ELSE LET w1 == report(w, 50)
             list == remoteExercises(w.account)
         IN IF Len(w.recentWorkouts) = 0 \/ Len(list) = 0
            THEN finishRefresh([w1 EXCEPT !.workoutsByDate = EmptyMap])
            ELSE LET w2 == [w1 EXCEPT
                               !.exercises = usedExercises(w.recentWorkouts, list, <<>>),
                               !.workoutsByDate = prepopulate(EmptyMap, w.recentWorkouts)]
                 IN IF Len(w2.exercises) = 0 THEN finishRefresh(w2)
                    ELSE dispatchBatch(w2, 0)

\* workoutUtils.ts:730-759  the batch's async function for the exercise at
\* `position`, once getExerciseHistory has resolved or thrown; <<>> is null
processBatchExercise(w, position, outcome, sf) ==
    LET exercise == w.exercises[position]
        exerciseHistory == remoteHistory(exercise.id, w.remoteVer)
        done(v, r) == [v EXCEPT !.batchResults = @ @@ (position :> r),
                                !.inflight = @ \ {position},
                                !.gatewayDetail[exercise.id] = outcome]
    IN IF outcome # "ok" THEN done(w, <<>>)
       ELSE IF "history.set" \in sf THEN done(w, <<>>)
       ELSE done(stored(w, setItem(w.store, historyKey(exercise.id),
                                   [timestamp |-> w.passes, data |-> exerciseHistory], FALSE),
                        historyKey(exercise.id), FALSE),
                 <<[exercise |-> exercise, exerciseHistory |-> exerciseHistory]>>)

\* workoutUtils.ts:765  50 + floor(40 * (i + MAX) / max(length, 1))
batchProgressOf(i, n) ==
    50 + ((40 * (i + MAX_CONCURRENT_REQUESTS)) \div (IF n > 1 THEN n ELSE 1))

\* workoutUtils.ts:762-805  Promise.all has resolved: progress, merge the
\* batch, go on to the next batch or return to fetchNewWorkouts
refreshBatchResolved(w) ==
    LET progressPercent == batchProgressOf(w.batchStart, Len(w.exercises))
        w1 == [report(w, progressPercent) EXCEPT
                  !.workoutsByDate = mergeBatchResults(@, batchResultsInOrder(w))]
        next == w.batchStart + MAX_CONCURRENT_REQUESTS
    IN IF reporterThrows(w, progressPercent) THEN refreshReturnsEmpty(report(w, progressPercent))
       ELSE IF next < Len(w.exercises) THEN dispatchBatch(w1, next)
       ELSE finishRefresh(w1)

refreshDetailResolved(w, position, outcome, sf) ==
    LET w1 == processBatchExercise(w, position, outcome, sf)
    IN IF w1.inflight = {} THEN refreshBatchResolved(w1) ELSE w1

(***************************************************************************)
(* The presentation layer: App.tsx and its revision part_007.              *)
(***************************************************************************)
\* part_007:245-246  Array.from(map.values()).sort(newest first)
valuesNewestFirst(byDate) ==
    LET order == SetToSeqDesc(DOMAIN byDate)
    IN [i \in 1..Len(order) |-> byDate[order[i]]]

RECURSIVE setIncoming(_, _)
\* part_007:232-242  a fetched workout with exercises replaces the held one of
\* its date; an empty one is added only for a date not held
setIncoming(byDate, newWorkouts) ==
    IF newWorkouts = <<>> THEN byDate
    ELSE LET workout == Head(newWorkouts)
             put == IF workout.date \in DOMAIN byDate
                    THEN [byDate EXCEPT ![workout.date] = workout]
                    ELSE byDate @@ (workout.date :> workout)
         IN setIncoming(
                IF Len(workout.exercises) > 0 THEN put
                ELSE IF workout.date \notin DOMAIN byDate THEN put
                ELSE byDate,
                Tail(newWorkouts))

\* a merge that keeps only the fetched workouts
mergeIntoHeldFetchedOnly(held, newWorkouts) ==
    valuesNewestFirst(setIncoming(EmptyMap, newWorkouts))

\* part_007:222-246  the merge of fetchNewWorkouts' result into the held list
mergeIntoHeld(held, newWorkouts) ==
    valuesNewestFirst(setIncoming(seedWorkouts(EmptyMap, held), newWorkouts))

\* a pass begins: the per-pass bookkeeping starts afresh
beginPass(w, operation, handler) ==
    [w EXCEPT !.passes = @ + 1, !.op = operation, !.caller = handler,
              !.credentials = NoCredentials, !.sessionToken = 0, !.userId = 0, !.existingWorkouts = <<>>, !.exercises = <<>>,
              !.recentWorkouts = <<>>, !.workoutsByDate = EmptyMap, !.batchStart = 0,
              !.inflight = {}, !.batchResults = EmptyMap, !.exerciseResults = <<>>,
              !.batches = 0, !.requested = <<>>, !.gatewayDetail = NoDetail,
              !.calls = NoCalls, !.reported = {}, !.result = <<>>,
              !.storeAtStart = w.store, !.writes = NoWrites,
              !.workoutsAtClick = w.workouts]

\* getWorkoutHistory(email, password, ...): the arguments of the call
passing(w, given) == [w EXCEPT !.credentials = given]

\* the handler has finished
endPass(w) ==
    [w EXCEPT !.pc = "idle", !.op = "none", !.caller = "none",
              !.credentials = NoCredentials, !.sessionToken = 0, !.userId = 0, !.existingWorkouts = <<>>, !.exercises = <<>>,
              !.recentWorkouts = <<>>, !.workoutsByDate = EmptyMap, !.batchStart = 0,
              !.inflight = {}, !.batchResults = EmptyMap, !.exerciseResults = <<>>,
              !.batches = 0, !.requested = <<>>, !.gatewayDetail = NoDetail,
              !.calls = NoCalls, !.reported = {}, !.result = <<>>,
              !.storeAtStart = EmptyStore, !.writes = NoWrites,
              !.workoutsAtClick = <<>>]

\* App.tsx:56-83 and :100-110  the login form is submitted
HandleLogin ==
    /\ pc = "idle"
    /\ ~isAuthenticated
    /\ passes < passLimit
    /\ \E given \in Credentials :
       \E sf \in storeFaultChoices({"auth.get", "workouts.get", "exercises.get"}) :
         LET savedWorkouts == store[CACHE_KEYS.WORKOUTS]
             w1 == IF savedWorkouts # <<>>
                   THEN [World EXCEPT !.workouts = savedWorkouts[1],
                                      !.isAuthenticated = TRUE,
                                      !.store = setItem(store, IS_AUTHENTICATED, "true", FALSE)]
                   ELSE World
             handler == IF savedWorkouts # <<>> THEN "handleLogin.cached"
                        ELSE "handleLogin"
         IN Becomes(startFullSync(
                        charge(passing(beginPass(w1, "fullSync", handler), given),
                               "ok", sf), sf))

\* App.tsx:137-165  Refresh is clicked (the revision that runs a full sync)
HandleRefreshFullSync ==
    /\ pc = "idle"
    /\ isAuthenticated
    /\ passes < passLimit
    /\ \E sf \in storeFaultChoices({"auth.get", "workouts.get", "exercises.get"}) :
         Becomes(startFullSync(
                     charge(passing(beginPass(World, "fullSync", "handleRefresh"),
                                    EmptyCredentials),
                            "ok", sf), sf))

\* part_007:179-220  Refresh is clicked (the revision that runs fetchNewWorkouts)
HandleRefresh ==
    /\ pc = "idle"
    /\ isAuthenticated
    /\ passes < passLimit
    /\ store[CACHE_KEYS.AUTH] # <<>>
    /\ Becomes(startRefresh(beginPass(World, "refresh", "handleRefresh.incremental"),
                            store[CACHE_KEYS.AUTH][1].data.session_id))

(***************************************************************************)
(* Gateway responses arriving at the running operation.                    *)
(***************************************************************************)
FullSyncAuthResolved ==
    /\ pc = "auth" /\ op = "fullSync"
    /\ \E outcome \in authOutcomes :
       \E sf \in storeFaultChoices({"auth.set", "workouts.get", "exercises.get"}) :
         Becomes(authResolved(charge(World, outcome, sf), outcome, sf))

FullSyncExerciseListResolved ==
    /\ pc = "exerciseList" /\ op = "fullSync"
    /\ \E outcome \in gatewayOutcomes :
       \E sf \in storeFaultChoices({"exercises.set", "workouts.set"}) :
         Becomes(exerciseListResolved(charge(World, outcome, sf), outcome, sf))

FullSyncRangeResolved ==
    /\ pc = "range" /\ op = "fullSync"
    /\ \E outcome \in rangeOutcomes :
       \E sf \in storeFaultChoices({"exercises.remove", "workouts.set"}) :
         Becomes(rangeResolved(charge(World, outcome, sf), outcome, sf))

FullSyncExerciseListAgainResolved ==
    /\ pc = "exerciseListAgain" /\ op = "fullSync"
    /\ \E outcome \in gatewayOutcomes :
       \E sf \in storeFaultChoices({"exercises.set", "workouts.set"}) :
         Becomes(exerciseListAgainResolved(charge(World, outcome, sf), outcome, sf))

FullSyncDetailResolved ==
    /\ pc = "detail" /\ op = "fullSync"
    /\ \E position \in inflight :
       \E outcome \in gatewayOutcomes :
       \E sf \in storeFaultChoices({"history.get", "history.set", "workouts.set"}) :
         Becomes(detailResolved(charge(World, outcome, sf), position, outcome, sf))

RefreshRangeResolved ==
    /\ pc = "range" /\ op = "refresh"
    /\ \E outcome \in rangeOutcomes :
         Becomes(refreshRangeResolved(charge(World, outcome, {}), outcome))

RefreshExerciseListResolved ==
    /\ pc = "exerciseList" /\ op = "refresh"
    /\ \E outcome \in gatewayOutcomes :
         Becomes(refreshExerciseListResolved(charge(World, outcome, {}), outcome))

RefreshDetailResolved ==
    /\ pc = "detail" /\ op = "refresh"
    /\ \E position \in inflight :
       \E outcome \in gatewayOutcomes :
       \E sf \in storeFaultChoices({"history.set"}) :
         Becomes(refreshDetailResolved(charge(World, outcome, sf), position, outcome, sf))

(***************************************************************************)
(* The handlers' continuations, and the other user actions.                *)
(***************************************************************************)
\* App.tsx:85-90, :111-121 and :167-168  getWorkoutHistory has returned
FullSyncReturned ==
    /\ pc = "returned" /\ op = "fullSync"
    /\ LET w1 == [World EXCEPT !.workouts = result,
                               !.store = setItem(store, CACHE_KEYS.WORKOUTS, result, FALSE)]
           w2 == IF caller = "handleLogin"
                 THEN [w1 EXCEPT !.isAuthenticated = TRUE,
                                 !.store = setItem(w1.store, IS_AUTHENTICATED, "true", FALSE)]
                 ELSE w1
       IN Becomes(endPass(w2))

\* App.tsx:91-96, :122-127 and :171-175  getWorkoutHistory has rejected
FullSyncRejected ==
    /\ pc = "rejected"
    /\ Becomes(endPass(World))

\* part_007:222-264  fetchNewWorkouts has returned
RefreshReturned ==
    /\ pc = "returned" /\ op = "refresh"
    /\ LET mergedWorkouts == mergeIntoHeld(workoutsAtClick, result)
           w1 == IF Len(result) > 0
                 THEN [World EXCEPT !.workouts = mergedWorkouts,
                                    !.store = setItem(store, CACHE_KEYS.WORKOUTS,
                                                      mergedWorkouts, FALSE)]
                 ELSE World
       IN Becomes(endPass(w1))

\* App.tsx:183-188  Reset Cache is clicked
HandleClearCache ==
    /\ pc \notin {"returned", "rejected"}
    /\ isAuthenticated
    /\ clears < MaxClears
    /\ \E order \in keyOrders(store) :
         Becomes([World EXCEPT !.store = clearAllCaches(store, order),
                               !.isAuthenticated = FALSE,
                               !.workouts = <<>>,
                               !.clears = @ + 1])

\* the athlete logs a workout on the remote service
RemoteAdvance ==
    /\ pc = "idle"
    /\ remoteVer < MaxVer
    /\ Becomes([World EXCEPT !.remoteVer = @ + 1])

Next ==
    \/ HandleLogin
    \/ HandleRefreshFullSync
    \/ HandleRefresh
    \/ FullSyncAuthResolved
    \/ FullSyncExerciseListResolved
    \/ FullSyncRangeResolved
    \/ FullSyncExerciseListAgainResolved
    \/ FullSyncDetailResolved
    \/ RefreshRangeResolved
    \/ RefreshExerciseListResolved
    \/ RefreshDetailResolved
    \/ FullSyncReturned
    \/ FullSyncRejected
    \/ RefreshReturned
    \/ HandleClearCache
    \/ RemoteAdvance

Spec == Init /\ [][Next]_vars

\* the same system with a localStorage that may throw
InitStoreFault == InitWith(SmallAccount, FewPasses, MaxFaults, MaxStoreFaults)

SpecStoreFault == InitStoreFault /\ [][Next]_vars

\* the same system with an account of more exercises than one batch holds
InitWide == InitWith(NumExercises, FewPasses, WideFaults, 0)

SpecWide == InitWide /\ [][Next]_vars

\* the progress values at which the callbacks of SpecReporter throw
ThrowPoints == {0, 10, 20, 30, 50, 60, 100, 116}

\* the same system called with an onProgress that throws at one progress
\* value, or at none
InitReporter ==
    InitReporting(SmallAccount, FewPasses, WideFaults, 0,
                  {{}} \cup {{p} : p \in ThrowPoints})

SpecReporter == InitReporter /\ [][Next]_vars

\* the running sync operation waits for the answer to a gateway call
waitingForGateway ==
    /\ op \in {"fullSync", "refresh"}
    /\ \/ pc \in {"auth", "exerciseList", "range", "exerciseListAgain"}
       \/ pc = "detail" /\ inflight # {}

\* where the running operation waits, and for which detail requests
outstanding == <<pc, inflight>>

\* an outstanding gateway call is answered (it resolves or it throws): the
\* operation waits elsewhere, or for fewer requests, or has ended
GatewayAnswered ==
    /\ waitingForGateway
    /\ \E next \in {"auth", "exerciseList", "range", "exerciseListAgain", "detail",
                    "returned", "rejected"} :
       \E rest \in SUBSET (1..account) :
           /\ pc' = next
           /\ inflight' = rest

\* every gateway call that is outstanding is eventually answered
GatewayAnswers == WF_outstanding(GatewayAnswered)

\* the system with an account of more exercises than one batch holds and a
\* gateway that answers every call
SpecLive == InitWide /\ [][Next]_vars /\ GatewayAnswers

(***************************************************************************)
(* The merge loops on their own: the seeded map and the fetched results    *)
(* are drawn from bounded sets, and the loop is run once and once more.    *)
(***************************************************************************)
MaxResults == 2
MaxHistory == 2

\* the sequences over S of length at most n
SeqsUpTo(S, n) == UNION {[1..k -> S] : k \in 0..n}

\* ExerciseHistoryEntry values: without a date, with a date and sets, with a
\* set whose setNumber is not a number, with hasSets false, on a second date
MergeEntries ==
    {Entry(NoDate, TRUE, <<ExSet(1, 5, 100)>>, 110, NoId),
     Entry(1, TRUE, <<ExSet(1, 5, 100)>>, 110, 101),
     Entry(1, TRUE, <<ExSet(NonNumeric, 5, 95), ExSet(2, 3, 110)>>, 120, 101),
     Entry(2, FALSE, <<>>, 0, 102),
     Entry(2, TRUE, <<ExSet(1, 5, 100)>>, 110, 102)}

\* the [exercise, exerciseHistory] results a pass can collect; ids and dates
\* repeat
MergeResults ==
    SeqsUpTo({[exercise |-> Exercise(e), exerciseHistory |-> h] :
                 e \in 1..2, h \in SeqsUpTo(MergeEntries, MaxHistory)},
             MaxResults)

\* cached workout lists as getWorkoutHistory stores them: newest first, one
\* element per date, one WorkoutExercise per id
MergeSeeds ==
    {<<>>,
     <<[date |-> 2, programWorkoutId |-> 102, exercises |-> <<>>],
       [date |-> 1, programWorkoutId |-> 101,
        exercises |-> <<[id |-> 1, title |-> 1, sets |-> <<ExSet(1, 8, 90)>>,
                         bestEstimated1RM |-> 105]>>]>>,
     <<[date |-> 1, programWorkoutId |-> 101,
        exercises |-> <<[id |-> 1, title |-> 1, sets |-> <<ExSet(1, 8, 90)>>,
                         bestEstimated1RM |-> 105],
                        [id |-> 2, title |-> 2, sets |-> <<ExSet(1, 8, 60)>>,
                         bestEstimated1RM |-> 70]>>]>>}

\* getRecentWorkouts results: none, one date, two dates of which one has no
\* exercise_stats
MergeRecent ==
    {<<>>,
     <<[id |-> 101, date |-> 1, exercise_stats |-> <<1, 2>>]>>,
     <<[id |-> 101, date |-> 1, exercise_stats |-> <<1>>],
       [id |-> 102, date |-> 2, exercise_stats |-> <<>>]>>,
     <<[id |-> 101, date |-> 1, exercise_stats |-> <<2>>],
       [id |-> 102, date |-> 2, exercise_stats |-> <<1, 2>>]>>}

\* workoutUtils.ts:207-212 and :700-716  the map as each operation has it
\* when its merge loop starts
InitMerge ==
    /\ store = EmptyStore
    /\ account = 2
    /\ remoteVer = 0
    /\ passes = 0
    /\ passLimit = 0
    /\ faults = 0
    /\ faultLimit = 0
    /\ storeFaults = 0
    /\ storeFaultLimit = 0
    /\ clears = 0
    /\ pc = "merge"
    /\ op \in {"fullSync", "refresh"}
    /\ caller = "none"
    /\ credentials = NoCredentials
    /\ sessionToken = 0
    /\ userId = 0
    /\ existingWorkouts \in (IF op = "fullSync" THEN MergeSeeds ELSE {<<>>})
    /\ exercises = <<>>
    /\ recentWorkouts \in (IF op = "refresh" THEN MergeRecent ELSE {<<>>})
    /\ workoutsByDate = IF op = "fullSync"
                        THEN seedWorkouts(EmptyMap, existingWorkouts)
                        ELSE prepopulate(EmptyMap, recentWorkouts)
    /\ batchStart = 0
    /\ inflight = {}
    /\ batchResults = EmptyMap
    /\ exerciseResults \in MergeResults
    /\ batches = 0
    /\ requested = <<>>
    /\ gatewayDetail = NoDetail
    /\ calls = NoCalls
    /\ reported = {}
    /\ throwsAt = {}
    /\ result = <<>>
    /\ storeAtStart = EmptyStore
    /\ writes = NoWrites
    /\ workouts = <<>>
    /\ workoutsAtClick = <<>>
    /\ isAuthenticated = FALSE
    /\ cacheCall = NoCacheCall
    /\ appCalls = NoAppCalls

\* workoutUtils.ts:493-545  getWorkoutHistory's loop over exerciseResults and
\* the list built from the map
merged(w) ==
    LET byDate == mergeResults(w.workoutsByDate, w.exerciseResults)
    IN [w EXCEPT !.workoutsByDate = byDate, !.result = sortedWorkouts(byDate)]

\* workoutUtils.ts:769-804 with :656-658  processWorkoutsFromExercises' loop
\* over a batch's results and the list fetchNewWorkouts builds from the map
mergedBatch(w) ==
    LET byDate == mergeBatchResults(w.workoutsByDate, w.exerciseResults)
    IN [w EXCEPT !.workoutsByDate = byDate, !.result = sortedWorkouts(byDate)]

\* workoutUtils.ts:493  the full sync's merge loop runs
MergeExerciseResults ==
    /\ pc = "merge"
    /\ op = "fullSync"
    /\ Becomes([merged(World) EXCEPT !.pc = "merged"])

\* workoutUtils.ts:769  the refresh's merge loop runs
MergeBatchResults ==
    /\ pc = "merge"
    /\ op = "refresh"
    /\ Becomes([mergedBatch(World) EXCEPT !.pc = "merged"])

\* workoutUtils.ts:493 and :769  the same results are merged once more
MergeAgain ==
    /\ pc = "merged"
    /\ Becomes([(IF op = "fullSync" THEN merged(World) ELSE mergedBatch(World))
                   EXCEPT !.pc = "mergedAgain"])

NextMerge ==
    \/ MergeExerciseResults
    \/ MergeBatchResults
    \/ MergeAgain

SpecMerge == InitMerge /\ [][NextMerge]_vars

(***************************************************************************)
(* fetchWithCache on its own: the store, the arguments and what fetchFn    *)
(* does are drawn from bounded sets.                                       *)
(***************************************************************************)
\* payloads of cache entries and results of fetchFn
CachePayloads == {"held", "fresh"}

\* the keys fetchWithCache derives for the calls below
DerivedKeys == {CACHE_KEYS.AUTH, CACHE_KEYS.EXERCISES, historyKey(1), historyKey(2)}

\* stores in which each derived key has no entry or an entry written earlier
CacheStores ==
    {[k \in AllKeys |-> IF k \in DerivedKeys THEN held[k] ELSE EmptyStore[k]] :
        held \in [DerivedKeys ->
                     {<<>>} \cup {<<[timestamp |-> 0, data |-> d]>> : d \in CachePayloads}]}

\* workoutUtils.ts:66-70  the callers' arguments: (email, "auth"),
\* (email, "exercises"), (exerciseId, "exerciseHistory")
CacheCalls ==
    {[cacheKey |-> k, cacheName |-> n] :
        k \in 1..2, n \in {"auth", "exercises", "exerciseHistory"}}

InitCache ==
    /\ store \in CacheStores
    /\ account = 0
    /\ remoteVer = 0
    /\ passes = 1
    /\ passLimit = 1
    /\ faults = 0
    /\ faultLimit = 1
    /\ storeFaults = 0
    /\ storeFaultLimit = 0
    /\ clears = 0
    /\ pc = "call"
    /\ op = "fetchWithCache"
    /\ caller = "none"
    /\ credentials = NoCredentials
    /\ sessionToken = 0
    /\ userId = 0
    /\ existingWorkouts = <<>>
    /\ exercises = <<>>
    /\ recentWorkouts = <<>>
    /\ workoutsByDate = EmptyMap
    /\ batchStart = 0
    /\ inflight = {}
    /\ batchResults = EmptyMap
    /\ exerciseResults = <<>>
    /\ batches = 0
    /\ requested = <<>>
    /\ gatewayDetail = NoDetail
    /\ calls = [fetchFn |-> 0]
    /\ reported = {}
    /\ throwsAt = {}
    /\ result = <<>>
    /\ storeAtStart = store
    /\ writes = NoWrites
    /\ workouts = <<>>
    /\ workoutsAtClick = <<>>
    /\ isAuthenticated = FALSE
    /\ cacheCall \in CacheCalls
    /\ appCalls = NoAppCalls

\* a fetchWithCache that does not look into the cache
fetchWithCacheNoLookup(w) ==
    [called(w, "fetchFn") EXCEPT !.pc = "fetchFn"]

\* workoutUtils.ts:71-91  the call up to its await: the cached payload is
\* returned, or fetchFn is invoked
fetchWithCache(w) ==
    LET cached == getFromCache(w.store,
                               storageKey(w.cacheCall.cacheKey, w.cacheCall.cacheName),
                               FALSE)
    IN IF cached # <<>>
       THEN [w EXCEPT !.result = <<cached[1].data>>, !.pc = "returned"]
       ELSE [called(w, "fetchFn") EXCEPT !.pc = "fetchFn"]

\* a fetchWithCache that stores an empty payload when fetchFn throws
fetchFnSettledCachesFailure(w, outcome, data) ==
    LET key == storageKey(w.cacheCall.cacheKey, w.cacheCall.cacheName) IN
    IF outcome = "ok"
    THEN [stored(w, saveToCache(w.store, key, data, w.passes, FALSE), key, FALSE)
             EXCEPT !.result = <<data>>, !.pc = "returned"]
    ELSE [stored(w, saveToCache(w.store, key, <<>>, w.passes, FALSE), key, FALSE)
             EXCEPT !.faults = @ + 1, !.pc = "rejected"]

\* workoutUtils.ts:91-98  fetchFn has resolved with data or thrown: the data
\* is saved and returned; the exception leaves fetchWithCache
fetchFnSettled(w, outcome, data) ==
    LET key == storageKey(w.cacheCall.cacheKey, w.cacheCall.cacheName) IN
    IF outcome = "ok"
    THEN [stored(w, saveToCache(w.store, key, data, w.passes, FALSE), key, FALSE)
             EXCEPT !.result = <<data>>, !.pc = "returned"]
    ELSE [w EXCEPT !.faults = @ + 1, !.pc = "rejected"]

\* workoutUtils.ts:66  fetchWithCache is called
FetchWithCache ==
    /\ pc = "call"
    /\ Becomes(fetchWithCache(World))

\* workoutUtils.ts:92  await fetchFn() resolves
FetchFnResolved ==
    /\ pc = "fetchFn"
    /\ \E data \in CachePayloads : Becomes(fetchFnSettled(World, "ok", data))

\* workoutUtils.ts:92  await fetchFn() throws
FetchFnRejected ==
    /\ pc = "fetchFn"
    /\ Becomes(fetchFnSettled(World, "throw", <<>>))

NextCache ==
    \/ FetchWithCache
    \/ FetchFnResolved
    \/ FetchFnRejected

SpecCache == InitCache /\ [][NextCache]_vars

(***************************************************************************)
(* calculateWorkoutVolume on its own: the workout is drawn from a bounded  *)
(* set and held as the only element of `workouts`.                         *)
(***************************************************************************)
MaxVolumeExercises == 2
MaxVolumeSets == 2

\* stands for a rawValue that is absent from the set (undefined or null)
Missing == -1

\* sets whose repetitions and load are absent, zero or positive
VolumeSets ==
    {ExSet(1, reps, load) : reps \in {Missing, 0, 3, 5}, load \in {Missing, 0, 225, 275}}

VolumeWorkouts ==
    {[date |-> 1, programWorkoutId |-> 101, exercises |-> exs] :
        exs \in SeqsUpTo({[id |-> 1, title |-> 1, sets |-> sets, bestEstimated1RM |-> 0] :
                             sets \in SeqsUpTo(VolumeSets, MaxVolumeSets)},
                         MaxVolumeExercises)}

\* JavaScript's truthiness of a rawValue: undefined, null and 0 are falsy
truthy(v) == v # Missing /\ v # 0

RECURSIVE volumeOfSets(_, _)
\* workoutUtils.ts:817-822  the inner loop, adding to totalVolume
volumeOfSets(totalVolume, sets) ==
    IF sets = <<>> THEN totalVolume
    ELSE LET set == Head(sets) IN
         volumeOfSets(IF truthy(set.rawValue1) /\ truthy(set.rawValue2)
                      THEN totalVolume + set.rawValue1 * set.rawValue2
                      ELSE totalVolume,
                      Tail(sets))

RECURSIVE volumeOfExercises(_, _)
\* workoutUtils.ts:816-823  the outer loop
volumeOfExercises(totalVolume, exs) ==
    IF exs = <<>> THEN totalVolume
    ELSE volumeOfExercises(volumeOfSets(totalVolume, Head(exs).sets), Tail(exs))

\* a volume that counts the load of every set once, whatever the repetitions
calculateWorkoutVolumeLoadOnly(workout) ==
    LET RECURSIVE loads(_, _)
        loads(total, sets) ==
            IF sets = <<>> THEN total
            ELSE loads(IF truthy(Head(sets).rawValue2) THEN total + Head(sets).rawValue2
                       ELSE total, Tail(sets))
        RECURSIVE over(_, _)
        over(total, exs) ==
            IF exs = <<>> THEN total ELSE over(loads(total, Head(exs).sets), Tail(exs))
    IN over(0, workout.exercises)

\* workoutUtils.ts:813-826  calculateWorkoutVolume
calculateWorkoutVolume(workout) == volumeOfExercises(0, workout.exercises)

InitVolume ==
    /\ store = EmptyStore
    /\ account = 0
    /\ remoteVer = 0
    /\ passes = 0
    /\ passLimit = 0
    /\ faults = 0
    /\ faultLimit = 0
    /\ storeFaults = 0
    /\ storeFaultLimit = 0
    /\ clears = 0
    /\ pc = "call"
    /\ op = "calculateWorkoutVolume"
    /\ caller = "none"
    /\ credentials = NoCredentials
    /\ sessionToken = 0
    /\ userId = 0
    /\ existingWorkouts = <<>>
    /\ exercises = <<>>
    /\ recentWorkouts = <<>>
    /\ workoutsByDate = EmptyMap
    /\ batchStart = 0
    /\ inflight = {}
    /\ batchResults = EmptyMap
    /\ exerciseResults = <<>>
    /\ batches = 0
    /\ requested = <<>>
    /\ gatewayDetail = NoDetail
    /\ calls = NoCalls
    /\ reported = {}
    /\ throwsAt = {}
    /\ result = <<>>
    /\ storeAtStart = EmptyStore
    /\ writes = NoWrites
    /\ workouts \in {<<w>> : w \in VolumeWorkouts}
    /\ workoutsAtClick = <<>>
    /\ isAuthenticated = FALSE
    /\ cacheCall = NoCacheCall
    /\ appCalls = NoAppCalls

\* workoutUtils.ts:813  calculateWorkoutVolume is called with the workout
CalculateWorkoutVolume ==
    /\ pc = "call"
    /\ op = "calculateWorkoutVolume"
    /\ Becomes([World EXCEPT !.result = <<calculateWorkoutVolume(workouts[1])>>,
                             !.pc = "returned"])

NextVolume == CalculateWorkoutVolume

SpecVolume == InitVolume /\ [][NextVolume]_vars

(***************************************************************************)
(* The App's handlers on their own (App.tsx).  A sync call is followed     *)
(* only as a call: awaited, then returned with a list or rejected; what    *)
(* the call itself writes to the store is left out.  appCalls.inFlight     *)
(* holds the handlers whose getWorkoutHistory call is awaited.             *)
(***************************************************************************)
MaxAppCalls == 4

\* a workout list as getWorkoutHistory returns it
AppWorkouts ==
    <<[date |-> 1, programWorkoutId |-> 101,
       exercises |-> <<[id |-> 1, title |-> 1, sets |-> <<ExSet(1, 5, 100)>>,
                        bestEstimated1RM |-> 110]>>]>>

\* the lists a sync call may return
AppResults == {<<>>, AppWorkouts}

\* App.tsx:33-54  the store at mount: empty, left by a logout (the workouts
\* stay), or left by a page closed while logged in
AppStores ==
    {EmptyStore,
     [EmptyStore EXCEPT ![CACHE_KEYS.WORKOUTS] = <<AppWorkouts>>],
     [EmptyStore EXCEPT ![CACHE_KEYS.WORKOUTS] = <<AppWorkouts>>,
                        ![IS_AUTHENTICATED] = <<"true">>]}

InitApp ==
    /\ store \in AppStores
    /\ account = 0
    /\ remoteVer = 0
    /\ passes = 0
    /\ passLimit = MaxAppCalls
    /\ faults = 0
    /\ faultLimit = 0
    /\ storeFaults = 0
    /\ storeFaultLimit = 0
    /\ clears = 0
    /\ pc = "idle"
    /\ op = "none"
    /\ caller = "none"
    /\ credentials = NoCredentials
    /\ sessionToken = 0
    /\ userId = 0
    /\ existingWorkouts = <<>>
    /\ exercises = <<>>
    /\ recentWorkouts = <<>>
    /\ workoutsByDate = EmptyMap
    /\ batchStart = 0
    /\ inflight = {}
    /\ batchResults = EmptyMap
    /\ exerciseResults = <<>>
    /\ batches = 0
    /\ requested = <<>>
    /\ gatewayDetail = NoDetail
    /\ calls = NoCalls
    /\ reported = {}
    /\ throwsAt = {}
    /\ result = <<>>
    /\ storeAtStart = store
    /\ writes = NoWrites
    /\ workouts = IF store[CACHE_KEYS.WORKOUTS] # <<>> THEN store[CACHE_KEYS.WORKOUTS][1] ELSE <<>>
    /\ workoutsAtClick = <<>>
    /\ isAuthenticated = (store[IS_AUTHENTICATED] = <<"true">>)
    /\ cacheCall = NoCacheCall
    /\ appCalls = NoAppCalls

\* App.tsx:56-83 and :100-110  handleLogin up to its await
appLogin(w) ==
    LET savedWorkouts == w.store[CACHE_KEYS.WORKOUTS] IN
    IF savedWorkouts # <<>>
    THEN [w EXCEPT !.workouts = savedWorkouts[1],
                   !.isAuthenticated = TRUE,
                   !.store = setItem(w.store, IS_AUTHENTICATED, "true", FALSE),
                   !.appCalls.authLoading = FALSE,
                   !.appCalls.inFlight = Append(@, "handleLogin.cached"),
                   !.passes = @ + 1]
    ELSE [w EXCEPT !.appCalls.authLoading = TRUE,
                   !.appCalls.inFlight = Append(@, "handleLogin"),
                   !.passes = @ + 1]

\* App.tsx:137-165  handleRefresh up to its await; with dataLoading set it
\* returns at once
appRefresh(w) ==
    IF w.appCalls.dataLoading THEN w
    ELSE [w EXCEPT !.appCalls.dataLoading = TRUE,
                   !.appCalls.inFlight = Append(@, "handleRefresh"),
                   !.passes = @ + 1]

\* App.tsx:85-99, :111-134 and :167-179  the awaited getWorkoutHistory of the
\* handler at position i has returned `list` or rejected; the handler runs to
\* its end
appSyncSettled(w, i, outcome, list) ==
    LET handler == w.appCalls.inFlight[i]
        w1 == [w EXCEPT !.appCalls.inFlight = RemoveAt(@, i)]
        kept == [w1 EXCEPT !.workouts = list,
                           !.store = setItem(w1.store, CACHE_KEYS.WORKOUTS, list, FALSE)]
        w2 == IF outcome # "ok" THEN w1
              ELSE IF handler = "handleLogin"
              THEN [kept EXCEPT !.isAuthenticated = TRUE,
                                !.store = setItem(kept.store, IS_AUTHENTICATED, "true", FALSE)]
              ELSE kept
    IN IF handler = "handleRefresh"
       THEN [w2 EXCEPT !.appCalls.dataLoading = FALSE]
       ELSE [w2 EXCEPT !.appCalls.authLoading = FALSE, !.appCalls.dataLoading = FALSE]

\* part_003:261 with App.tsx:207-215  the login form is shown and its button
\* is enabled; it is submitted
AppHandleLogin ==
    /\ ~isAuthenticated
    /\ ~appCalls.authLoading
    /\ passes < passLimit
    /\ Becomes(appLogin(World))

\* App.tsx:239-254  the dashboard is shown; Refresh is clicked
AppHandleRefresh ==
    /\ isAuthenticated
    /\ passes < passLimit
    /\ Becomes(appRefresh(World))

AppSyncReturned ==
    \E i \in 1..Len(appCalls.inFlight) :
    \E list \in AppResults :
        Becomes(appSyncSettled(World, i, "ok", list))

AppSyncRejected ==
    \E i \in 1..Len(appCalls.inFlight) :
        Becomes(appSyncSettled(World, i, "throw", <<>>))

\* App.tsx:183-188  Reset Cache is clicked
AppHandleClearCache ==
    /\ isAuthenticated
    /\ clears < MaxClears
    /\ \E order \in keyOrders(store) :
         Becomes([World EXCEPT !.store = clearAllCaches(store, order),
                               !.isAuthenticated = FALSE,
                               !.workouts = <<>>,
                               !.clears = @ + 1])

\* App.tsx:191-199  Logout is clicked: the workouts stay in the store
AppHandleLogout ==
    /\ isAuthenticated
    /\ Becomes([World EXCEPT !.store = removeItem(store, IS_AUTHENTICATED),
                             !.isAuthenticated = FALSE,
                             !.workouts = <<>>])

NextApp ==
    \/ AppHandleLogin
    \/ AppHandleRefresh
    \/ AppSyncReturned
    \/ AppSyncRejected
    \/ AppHandleClearCache
    \/ AppHandleLogout

SpecApp == InitApp /\ [][NextApp]_vars

(***************************************************************************)
(* fetchNewWorkouts called on its own, with any session token and any      *)
(* most recent date (workoutUtils.ts:585-667).                             *)
(***************************************************************************)
\* workoutUtils.ts:586  the sessionToken argument: empty, or a session's
RefreshTokens == {0, RemoteSession.session_id}

\* workoutUtils.ts:587  the mostRecentWorkoutDate argument, as the first date
\* of a held list: undefined, an old date, a recent one
RefreshHeld ==
    {<<>>} \cup {<<[date |-> d, programWorkoutId |-> remoteWorkoutId(d),
                    exercises |-> <<>>]>> : d \in {DOld, DRec}}

InitRefresh == InitWith(SmallAccount, MaxPasses, MaxFaults, 0)

\* workoutUtils.ts:585-589  fetchNewWorkouts is called
FetchNewWorkoutsCalled ==
    /\ pc = "idle"
    /\ passes < passLimit
    /\ \E token \in RefreshTokens :
       \E held \in RefreshHeld :
         Becomes(startRefresh([beginPass(World, "refresh", "fetchNewWorkouts")
                                  EXCEPT !.workoutsAtClick = held],
                              token))

\* the promise fetchNewWorkouts returned has settled
FetchNewWorkoutsSettled ==
    /\ op = "refresh"
    /\ pc \in {"returned", "rejected"}
    /\ Becomes(endPass(World))

NextRefresh ==
    \/ FetchNewWorkoutsCalled
    \/ RefreshRangeResolved
    \/ RefreshExerciseListResolved
    \/ RefreshDetailResolved
    \/ FetchNewWorkoutsSettled
    \/ RemoteAdvance

SpecRefresh == InitRefresh /\ [][NextRefresh]_vars

(***************************************************************************)
(* clearAllCaches on its own (workoutUtils.ts:105-130): the store it is    *)
(* called on and the order in which localStorage.key(i) enumerates the     *)
(* keys are drawn from bounded sets.                                       *)
(***************************************************************************)
MaxClearHistories == 3

\* the keys a drawn store may hold: the application's, the histories of a
\* few exercises, and the other application's
ClearKeys ==
    {CACHE_KEYS.AUTH, CACHE_KEYS.EXERCISES, CACHE_KEYS.WORKOUTS, IS_AUTHENTICATED,
     OtherKey} \cup {historyKey(e) : e \in 1..MaxClearHistories}

\* the stores clearAllCaches is called on: any of these keys present; the
\* other application's key absent or with one of two values
ClearStores ==
    {[k \in AllKeys |-> IF k = OtherKey THEN theme
                        ELSE IF k \in present THEN <<"stored">> ELSE <<>>] :
        present \in SUBSET (ClearKeys \ {OtherKey}),
        theme \in {<<>>, <<"dark">>, <<"light">>}}

RECURSIVE PermutationsOf(_)
\* the sequences that enumerate the set S once each
PermutationsOf(S) ==
    IF S = {} THEN {<<>>}
    ELSE UNION {{<<x>> \o rest : rest \in PermutationsOf(S \ {x})} : x \in S}

\* localStorage.key(i): every order of the keys the loop meets (the four
\* keys removed before the loop are gone by then)
ClearOrders(st) ==
    PermutationsOf(presentKeys(st) \ {CACHE_KEYS.AUTH, CACHE_KEYS.EXERCISES,
                                      CACHE_KEYS.WORKOUTS, IS_AUTHENTICATED})

InitClear ==
    /\ store \in ClearStores
    /\ account = 0
    /\ remoteVer = 0
    /\ passes = 0
    /\ passLimit = 0
    /\ faults = 0
    /\ faultLimit = 0
    /\ storeFaults = 0
    /\ storeFaultLimit = 0
    /\ clears = 0
    /\ pc = "call"
    /\ op = "clearAllCaches"
    /\ caller = "none"
    /\ credentials = NoCredentials
    /\ sessionToken = 0
    /\ userId = 0
    /\ existingWorkouts = <<>>
    /\ exercises = <<>>
    /\ recentWorkouts = <<>>
    /\ workoutsByDate = EmptyMap
    /\ batchStart = 0
    /\ inflight = {}
    /\ batchResults = EmptyMap
    /\ exerciseResults = <<>>
    /\ batches = 0
    /\ requested = <<>>
    /\ gatewayDetail = NoDetail
    /\ calls = NoCalls
    /\ reported = {}
    /\ throwsAt = {}
    /\ result = <<>>
    /\ storeAtStart = EmptyStore
    /\ writes = NoWrites
    /\ workouts = <<>>
    /\ workoutsAtClick = <<>>
    /\ isAuthenticated = FALSE
    /\ cacheCall = NoCacheCall
    /\ appCalls = NoAppCalls

\* workoutUtils.ts:105-130  clearAllCaches is called
ClearAllCachesCalled ==
    /\ pc = "call"
    /\ op = "clearAllCaches"
    /\ \E order \in ClearOrders(store) :
         Becomes([World EXCEPT !.storeAtStart = store,
                               !.store = clearAllCaches(store, order),
                               !.pc = "returned"])

NextClear == ClearAllCachesCalled

SpecClear == InitClear /\ [][NextClear]_vars

(***************************************************************************)
(* Properties of the sync operations.                                      *)
(***************************************************************************)
\* the WorkoutExercise records a list holds for a date and an exercise id
recordsOf(list, d, id) ==
    UNION {{x \in Range(list[i].exercises) : x.id = id} :
              i \in {k \in 1..Len(list) : list[k].date = d}}

\* every WorkoutExercise of `before` is in `after`, sets and best 1RM intact
Preserved(before, after) ==
    \A i \in 1..Len(before) :
        \A x \in Range(before[i].exercises) :
            \E y \in recordsOf(after, before[i].date, x.id) :
                /\ y.sets = x.sets
                /\ y.bestEstimated1RM = x.bestEstimated1RM

\* C1: when fullSync returns, every (date, exercise id) WorkoutExercise of the
\* cached model it read is in the returned list with the same sets and the
\* same bestEstimated1RM, whatever the gateway delivered.
C1_FullSyncNonDestructive ==
    (pc = "returned" /\ op = "fullSync") => Preserved(existingWorkouts, result)

\* a fullSync has returned after merging a fetched history that holds, for a
\* cached (date, exercise id), sets other than the cached ones
C1_Witness ==
    /\ pc = "returned"
    /\ op = "fullSync"
    /\ \E r \in Range(exerciseResults) :
          \E h \in Range(r.exerciseHistory) :
             \E x \in recordsOf(existingWorkouts, h.dateCompleted, r.exercise.id) :
                h.hasSets /\ x.sets # validSetsOf(h.sets)

\* C2: the refresh path (fetchNewWorkouts and the merge of handleRefresh)
\* leaves every WorkoutExercise of the list held before the refresh in the
\* list held after it, sets and bestEstimated1RM intact.
C2_RefreshNonDestructive ==
    [][(pc = "returned" /\ op = "refresh") => Preserved(workouts, workouts')]_vars

\* no workout of the list has an empty exercise list
NoEmptyWorkout(list) ==
    \A i \in 1..Len(list) : Len(list[i].exercises) > 0

\* C3: neither the list a sync operation returns nor the list stored under
\* the workouts key holds a workout without exercises.
C3_NoEmptyWorkout ==
    /\ pc = "returned" => NoEmptyWorkout(result)
    /\ store[CACHE_KEYS.WORKOUTS] # <<>> => NoEmptyWorkout(store[CACHE_KEYS.WORKOUTS][1])

\* a sync has returned whose merge map held a workout left without exercises
C3_Witness ==
    /\ pc = "returned"
    /\ \E d \in DOMAIN workoutsByDate : Len(workoutsByDate[d].exercises) = 0

\* C4: never more than 5 fetchExerciseDetail requests are outstanding, the
\* outstanding ones all belong to the batch dispatched last (a batch goes out
\* only when the one before it has resolved completely), and a sync that
\* requested n exercises has dispatched exactly ceil(n / 5) batches.
C4_BoundedBatches ==
    /\ Cardinality(inflight) <= 5
    /\ inflight \subseteq (batchStart + 1)..(batchStart + 5)
    /\ pc = "detail" => batches = (batchStart \div 5) + 1
    /\ pc = "returned" => batches = (Len(requested) + 4) \div 5

\* a sync has returned that needed more than one batch
C4_Witness ==
    /\ pc = "returned"
    /\ Len(requested) > 5
    /\ batches >= 2

\* the per-exercise results fullSync holds so far
resultsSoFar ==
    Range(exerciseResults) \cup UNION {Range(batchResults[k]) : k \in DOMAIN batchResults}

\* what fullSync holds as the contribution of exercise e
contributionsOf(e) ==
    {r.exerciseHistory : r \in {q \in resultsSoFar : q.exercise.id = e}}

\* the history the store holds for exercise e, <<>> when it holds none
cachedHistoryOf(e) ==
    IF store[historyKey(e)] # <<>> THEN store[historyKey(e)][1].data ELSE <<>>

\* C5: when a detail fetch of fullSync throws, the exercise contributes
\* exactly the history the store holds for it, or the empty history when the
\* store holds none, and fullSync goes on to return: it rejects only before
\* any detail request.
C5_FailedDetailFallsBack ==
    /\ [](pc = "rejected" => calls.fetchExerciseDetail = 0)
    /\ [][\A e \in ExerciseIds :
            (op = "fullSync" /\ gatewayDetail[e] = "none" /\ gatewayDetail'[e] = "throw")
            => /\ contributionsOf(e)' = {cachedHistoryOf(e)}
               /\ pc' \in {"detail", "returned"}]_vars

\* a fullSync holds a non-empty contribution for an exercise whose fetch threw
C5_Witness ==
    /\ op = "fullSync"
    /\ \E r \in resultsSoFar :
          /\ gatewayDetail[r.exercise.id] = "throw"
          /\ r.exerciseHistory # <<>>

\* C6: when authenticate fails, fullSync rejects, having written or removed
\* no store key and having called no other gateway operation.
C6_AuthFailureRejects ==
    /\ [](pc = "auth" =>
            /\ writes = NoWrites
            /\ calls = [NoCalls EXCEPT !.authenticate = 1])
    /\ [][(pc = "auth" /\ faults' > faults)
            => /\ pc' = "rejected"
               /\ writes' = NoWrites
               /\ store' = store
               /\ calls' = calls]_vars

\* a fullSync has rejected on the failure of authenticate
C6_Witness ==
    /\ pc = "rejected"
    /\ calls.authenticate = 1
    /\ calls.listKnownExercises = 0

\* fullSync has returned the cached list on an empty range answer
shortCircuited ==
    /\ pc = "returned"
    /\ op = "fullSync"
    /\ calls.listWorkoutsInRange = 1
    /\ batches = 0

\* C7 as stated: with cached workouts and an empty range answer fullSync
\* returns the cached list unmodified, reports 100, requests no exercise
\* detail and leaves the workouts entry and the exercise-list entry of the
\* store as they were.
C7_ShortCircuitLeavesBothEntries ==
    shortCircuited =>
        /\ result = existingWorkouts
        /\ 100 \in reported
        /\ calls.fetchExerciseDetail = 0
        /\ writes[CACHE_KEYS.WORKOUTS] = 0
        /\ writes[CACHE_KEYS.EXERCISES] = 0

\* C7: with cached workouts and an empty range answer fullSync returns the
\* cached list unmodified, reports 100, requests no exercise detail, leaves
\* the workouts entry as it was, and writes the exercise-list entry only
\* when it had to fetch the list because the store held none.
C7_ShortCircuit ==
    shortCircuited =>
        /\ result = existingWorkouts
        /\ Len(existingWorkouts) > 0
        /\ 100 \in reported
        /\ calls.fetchExerciseDetail = 0
        /\ writes[CACHE_KEYS.WORKOUTS] = 0
        /\ \A e \in ExerciseIds : writes[historyKey(e)] = 0
        /\ writes[CACHE_KEYS.EXERCISES] <= calls.listKnownExercises
        /\ calls.listKnownExercises <= 1

\* a fullSync has returned the cached list on an empty range answer without
\* a call of listKnownExercises
C7_Witness ==
    /\ shortCircuited
    /\ calls.listKnownExercises = 0
    /\ Len(result) > 0

\* C8: after clearAllCaches the store holds no key of the application's
\* namespace, whatever keys it held and in whatever order it lists them.
C8_ClearRemovesEveryAppKey ==
    [][clears' = clears + 1 => \A k \in AppKeys : store'[k] = <<>>]_vars

\* C9 as stated: every failure of listKnownExercises in fullSync, at the
\* first fetch and at the refetch after the invalidation, makes it reject.
C9_EveryListFailureRejects ==
    [][(op = "fullSync" /\ pc \in {"exerciseList", "exerciseListAgain"} /\ faults' > faults)
         => pc' = "rejected"]_vars

\* C9: a failure of the first listKnownExercises makes fullSync reject
\* without a write, and a rejected fullSync has not written the workouts
\* key; a failure of the refetch after the invalidation is absorbed: the
\* sync goes on to the detail requests with the list it had.
C9_ListFailure ==
    /\ [](pc = "rejected" => writes[CACHE_KEYS.WORKOUTS] = 0)
    /\ [][(op = "fullSync" /\ pc = "exerciseList" /\ faults' > faults)
            => (pc' = "rejected" /\ store' = store)]_vars
    /\ [][(op = "fullSync" /\ pc = "exerciseListAgain" /\ faults' > faults)
            => /\ pc' \in {"detail", "returned"}
               /\ exercises' = exercises
               /\ store'[CACHE_KEYS.EXERCISES] = <<>>]_vars

\* a fullSync has rejected on the failure of its first listKnownExercises
C9_Witness ==
    /\ pc = "rejected"
    /\ op = "fullSync"
    /\ calls.listKnownExercises = 1

\* what a refresh returns when every fetched history is merged, that is,
\* when a failed write of a history is skipped
refreshResultWritesSkipped ==
    LET oks == FilterSeq(exercises, {x \in Range(exercises) : gatewayDetail[x.id] = "ok"})
        results == [i \in 1..Len(oks) |->
                       [exercise |-> oks[i],
                        exerciseHistory |-> remoteHistory(oks[i].id, remoteVer)]]
    IN sortedWorkouts(mergeBatchResults(prepopulate(EmptyMap, recentWorkouts), results))

\* C10: a store operation that throws during a sync never makes the sync
\* reject (only a gateway failure does), and a refresh returns what it
\* returns when the failed write is skipped.
C10_StoreFaultsInvisible ==
    /\ [][(pc' = "rejected" /\ pc # "rejected") => faults' > faults]_vars
    /\ []((pc = "returned" /\ op = "refresh" /\ batches > 0)
            => result = refreshResultWritesSkipped)

\* C11: an onProgress that throws does not abort a sync and does not change
\* what it does: a sync rejects only on a gateway failure, a fullSync that
\* found cached workouts has asked for the workouts in range before it asks
\* for exercise detail, and a refresh that fetched exercise detail returns
\* the list built from every history it fetched.
C11_ThrowingReporterHarmless ==
    /\ [][(pc' = "rejected" /\ pc # "rejected") => faults' > faults]_vars
    /\ []((op = "fullSync" /\ pc \in {"detail", "returned"} /\ Len(existingWorkouts) > 0)
            => calls.listWorkoutsInRange = 1)
    /\ []((pc = "returned" /\ op = "refresh" /\ batches > 0)
            => result = refreshResultWritesSkipped)

\* the (result, entry) positions of the fetched results
entriesOf(results) ==
    {<<i, j>> : i \in 1..Len(results), j \in 1..MaxHistory} \cap
    UNION {{<<i, j>> : j \in 1..Len(results[i].exerciseHistory)} : i \in 1..Len(results)}

\* no workout of the map holds two WorkoutExercise records with one id
OnePerExercise(byDate) ==
    \A d \in DOMAIN byDate :
        \A i, j \in 1..Len(byDate[d].exercises) :
            i # j => byDate[d].exercises[i].id # byDate[d].exercises[j].id

\* C12: after the merge loop of the full sync or of the refresh has run over
\* any results, repeated ids and dates included, every workout holds at most
\* one WorkoutExercise per exercise id
C12_OnePerExercise ==
    pc \in {"merged", "mergedAgain"} => OnePerExercise(workoutsByDate)

\* a merge whose results named one exercise twice for a date of the map
C12_Witness ==
    /\ pc = "merged"
    /\ \E a, b \in entriesOf(exerciseResults) :
          LET ra == exerciseResults[a[1]]
              rb == exerciseResults[b[1]]
              ha == ra.exerciseHistory[a[2]]
              hb == rb.exerciseHistory[b[2]]
          IN /\ a # b
             /\ ra.exercise.id = rb.exercise.id
             /\ ha.dateCompleted = hb.dateCompleted
             /\ ha.hasSets /\ hb.hasSets
             /\ ha.dateCompleted \in DOMAIN workoutsByDate
             /\ \E x \in Range(workoutsByDate[ha.dateCompleted].exercises) :
                    x.id = ra.exercise.id

\* C13: merging the same results into the map a second time leaves the map as
\* the first merge left it
C13_MergeIdempotent ==
    [][(pc = "merged" /\ pc' = "mergedAgain") =>
           /\ workoutsByDate' = workoutsByDate
           /\ result' = result]_vars

\* a second merge of results whose first merge added to the map
C13_Witness ==
    /\ pc = "mergedAgain"
    /\ op = "fullSync"
    /\ workoutsByDate # seedWorkouts(EmptyMap, existingWorkouts)
    /\ Len(result) > 0

\* the WorkoutExercise records of the map that the seed did not hold
appended(byDate, seed) ==
    {<<d, i>> \in (DOMAIN byDate) \X (1..MaxResults * MaxHistory + 2) :
        /\ i <= Len(byDate[d].exercises)
        /\ \/ d \notin DOMAIN seed
           \/ i > Len(seed[d].exercises)}

\* the map the merge loop started from
seedMap ==
    IF op = "fullSync" THEN seedWorkouts(EmptyMap, existingWorkouts)
    ELSE prepopulate(EmptyMap, recentWorkouts)

\* C14: every WorkoutExercise the merge appended holds exactly the sets of
\* its history entry whose setNumber is a number, in the entry's order, so no
\* set without a numeric setNumber enters the map
C14_OnlyNumberedSets ==
    pc \in {"merged", "mergedAgain"} =>
        \A p \in appended(workoutsByDate, seedMap) :
            LET x == workoutsByDate[p[1]].exercises[p[2]] IN
            /\ \A k \in 1..Len(x.sets) : x.sets[k].setNumber # NonNumeric
            /\ \E a \in entriesOf(exerciseResults) :
                   LET r == exerciseResults[a[1]]
                       h == r.exerciseHistory[a[2]]
                   IN /\ r.exercise.id = x.id
                      /\ h.dateCompleted = p[1]
                      /\ h.hasSets
                      /\ x.sets = SelectSeq(h.sets, LAMBDA s : s.setNumber # NonNumeric)
                      /\ x.bestEstimated1RM = h.bestEstimated1RM

\* a merge that appended a WorkoutExercise from an entry holding a set whose
\* setNumber is not a number
C14_Witness ==
    /\ pc = "merged"
    /\ \E p \in appended(workoutsByDate, seedMap) :
          LET x == workoutsByDate[p[1]].exercises[p[2]] IN
          /\ x.bestEstimated1RM = 120
          /\ Len(x.sets) = 1
          /\ x.sets[1].setNumber = 2

\* the list runs from the newest date to the oldest and names no date twice
NewestFirst(list) ==
    \A i \in 1..(Len(list) - 1) : list[i].date > list[i + 1].date

\* C15: the list getWorkoutHistory returns is sorted by date, newest first,
\* with one element per date, whether it fetched everything, merged the
\* recent exercises into the cached list or returned the cached list on an
\* empty range answer
C15_ReturnedNewestFirst ==
    (pc = "returned" /\ op = "fullSync") => NewestFirst(result)

\* a full sync that merged a new date into a cached list and returned
C15_Witness ==
    /\ pc = "returned"
    /\ op = "fullSync"
    /\ Len(existingWorkouts) > 0
    /\ batches > 0
    /\ Len(result) > Len(existingWorkouts)
    /\ Len(result) >= 2

\* the key the running fetchWithCache call derives
derivedKey == storageKey(cacheCall.cacheKey, cacheCall.cacheName)

\* C16: when the store holds an entry under the derived key, fetchWithCache
\* returns its payload without invoking fetchFn; when it holds none, fetchFn
\* is invoked exactly once and, once it resolves, {timestamp, data} is stored
\* under the derived key and the data is returned
C16_HitOrFetchOnce ==
    /\ [](op = "fetchWithCache" /\ pc \in {"fetchFn", "returned", "rejected"} =>
             IF storeAtStart[derivedKey] # <<>>
             THEN /\ pc = "returned"
                  /\ result = <<storeAtStart[derivedKey][1].data>>
                  /\ calls.fetchFn = 0
                  /\ store = storeAtStart
             ELSE /\ calls.fetchFn = 1
                  /\ pc = "returned" =>
                         /\ store[derivedKey] # <<>>
                         /\ store[derivedKey][1].timestamp = passes
                         /\ <<store[derivedKey][1].data>> = result
                         /\ \A k \in AllKeys \ {derivedKey} : store[k] = storeAtStart[k])
    /\ [][(op = "fetchWithCache" /\ pc = "fetchFn" /\ pc' = "returned") =>
             \E data \in CachePayloads :
                 /\ result' = <<data>>
                 /\ store' = [store EXCEPT ![derivedKey] =
                                  <<[timestamp |-> passes, data |-> data]>>]]_vars

\* a miss on an exercise-history key that fetched, stored and returned
C16_Witness ==
    /\ op = "fetchWithCache"
    /\ pc = "returned"
    /\ cacheCall.cacheName = "exerciseHistory"
    /\ calls.fetchFn = 1
    /\ store[historyKey(cacheCall.cacheKey)] # <<>>
    /\ store[CACHE_KEYS.AUTH] # <<>>

\* C17: when fetchFn throws, the exception leaves fetchWithCache, fetchFn is
\* not invoked again and the store is as it was
C17_FetchFailurePropagates ==
    /\ [][(op = "fetchWithCache" /\ pc = "fetchFn" /\ faults' > faults) =>
             /\ pc' = "rejected"
             /\ calls' = calls
             /\ store' = store]_vars
    /\ [](op = "fetchWithCache" /\ pc = "rejected" =>
             /\ store = storeAtStart
             /\ calls.fetchFn = 1
             /\ writes = NoWrites
             /\ result = <<>>)

\* a fetchWithCache rejected by its fetchFn
C17_Witness ==
    /\ op = "fetchWithCache"
    /\ pc = "rejected"
    /\ faults = 1
    /\ calls.fetchFn = 1

\* getWorkoutHistory went on after its getRecentWorkouts threw
rangeFailed ==
    /\ op = "fullSync"
    /\ pc \in {"detail", "returned"}
    /\ calls.listWorkoutsInRange = 1
    /\ recentWorkouts = <<>>
    /\ batches > 0

\* C18: when getWorkoutHistory has cached workouts and its getRecentWorkouts
\* throws, it does not reject: it requests the detail of every known
\* exercise, merges the results into the cached workouts and returns the
\* merged list
C18_RangeFailureFetchesAll ==
    /\ [][(op = "fullSync" /\ pc = "range" /\ faults' > faults) =>
             /\ pc' = "detail"
             /\ rangeFailed'
             /\ Len(existingWorkouts') > 0
             /\ exercises' = remoteExercises(account)
             /\ store' = store]_vars
    /\ [][rangeFailed => pc' # "rejected"]_vars
    /\ []((rangeFailed /\ pc = "returned") =>
             /\ requested = [k \in 1..Len(exercises) |-> exercises[k].id]
             /\ exercises = remoteExercises(account)
             /\ result = sortedWorkouts(mergeResults(seedWorkouts(EmptyMap, existingWorkouts),
                                                     exerciseResults))
             /\ Preserved(existingWorkouts, result))

\* a full sync with cached workouts returned after its range call threw
C18_Witness ==
    /\ rangeFailed
    /\ pc = "returned"
    /\ faults = 1
    /\ Len(existingWorkouts) > 0
    /\ Len(result) >= Len(existingWorkouts)

\* C19 as stated: when a detail fetch of fetchNewWorkouts throws for an
\* exercise, the refresh goes on and the exercise contributes the history
\* the store holds for it (none when the store holds none), so every cached
\* entry with sets on a date of the refresh's map puts the exercise into that
\* date's workout
C19_RefreshFailedDetailFallsBack ==
    [][\A e \in ExerciseIds :
          (op = "refresh" /\ gatewayDetail[e] = "none" /\ gatewayDetail'[e] = "throw") =>
              /\ pc' \in {"detail", "returned"}
              /\ \A k \in 1..Len(cachedHistoryOf(e)) :
                    LET h == cachedHistoryOf(e)[k] IN
                    (/\ h.hasSets
                     /\ h.dateCompleted \in DOMAIN workoutsByDate
                     /\ h.dateCompleted \in DOMAIN workoutsByDate') =>
                        \/ \E pos \in DOMAIN batchResults' :
                              /\ batchResults'[pos] # <<>>
                              /\ batchResults'[pos][1].exercise.id = e
                              /\ batchResults'[pos][1].exerciseHistory = cachedHistoryOf(e)
                        \/ \E x \in Range(workoutsByDate'[h.dateCompleted].exercises) :
                              x.id = e]_vars

\* C20: when the getRecentWorkouts of fetchNewWorkouts answers with no
\* workout, the refresh reports 100 and returns the empty list at once: it
\* calls neither getHistory nor getExerciseHistory and leaves the store alone
C20_EmptyRangeReturnsEmpty ==
    /\ [][(/\ op = "refresh"
           /\ pc = "range"
           /\ pc' # "range"
           /\ faults' = faults
           /\ recentWorkouts' = <<>>) =>
             /\ pc' = "returned"
             /\ result' = <<>>
             /\ 100 \in reported'
             /\ calls' = calls
             /\ store' = store]_vars
    /\ []((op = "refresh" /\ pc = "returned" /\ recentWorkouts = <<>>) =>
             /\ calls.listKnownExercises = 0
             /\ calls.fetchExerciseDetail = 0
             /\ result = <<>>)

\* a refresh of held workouts returned on an empty range answer
C20_Witness ==
    /\ op = "refresh"
    /\ pc = "returned"
    /\ faults = 0
    /\ calls.listWorkoutsInRange = 1
    /\ recentWorkouts = <<>>
    /\ 100 \in reported
    /\ Len(workouts) > 0

\* every detail request of the pass has been answered
allDetailResolved ==
    /\ inflight = {}
    /\ \A k \in 1..Len(requested) : gatewayDetail[requested[k]] # "none"

\* C21: within a pass the sync operations write the workouts entry at most
\* once, and only getWorkoutHistory does, as its last step once every detail
\* request has been answered; fetchNewWorkouts neither writes nor removes it
C21_WorkoutsWrittenOnceAtEnd ==
    /\ [](writes[CACHE_KEYS.WORKOUTS] <= 1)
    /\ [](writes[CACHE_KEYS.WORKOUTS] = 1 =>
             /\ op = "fullSync"
             /\ pc = "returned"
             /\ allDetailResolved)
    /\ [][(op = "fullSync" /\ op' = "fullSync" /\ clears' = clears
              /\ store'[CACHE_KEYS.WORKOUTS] # store[CACHE_KEYS.WORKOUTS]) =>
             /\ pc # "returned"
             /\ pc' = "returned"
             /\ allDetailResolved'
             /\ store'[CACHE_KEYS.WORKOUTS] = <<result'>>]_vars
    /\ [][(op = "refresh" /\ op' = "refresh" /\ clears' = clears) =>
             /\ store'[CACHE_KEYS.WORKOUTS] = store[CACHE_KEYS.WORKOUTS]
             /\ writes'[CACHE_KEYS.WORKOUTS] = 0]_vars

\* a full sync that fetched detail has written the workouts entry and returned
C21_Witness ==
    /\ op = "fullSync"
    /\ pc = "returned"
    /\ writes[CACHE_KEYS.WORKOUTS] = 1
    /\ batches > 0
    /\ store[CACHE_KEYS.WORKOUTS] = <<result>>
    /\ Len(result) > 0

\* the dates of a workout list
datesOf(list) == {list[i].date : i \in 1..Len(list)}

\* C22: the handler's merge of the workouts fetchNewWorkouts returned into
\* the workouts it holds has one workout for every date of either list, no
\* other date, and runs from the newest date to the oldest; the merged list
\* is what the handler holds and stores afterwards
C22_MergeIsUnionByDate ==
    /\ []((op = "refresh" /\ pc = "returned" /\ Len(result) > 0) =>
             LET mergedWorkouts == mergeIntoHeld(workoutsAtClick, result) IN
             /\ datesOf(mergedWorkouts) = datesOf(workoutsAtClick) \cup datesOf(result)
             /\ NewestFirst(mergedWorkouts))
    /\ [][(op = "refresh" /\ pc = "returned" /\ Len(result) > 0 /\ pc' = "idle") =>
             /\ datesOf(workouts') = datesOf(workoutsAtClick) \cup datesOf(result)
             /\ NewestFirst(workouts')
             /\ store'[CACHE_KEYS.WORKOUTS] = <<workouts'>>]_vars

\* a refresh returned a workout for a date held and the handler holds a date
\* the refresh did not return
C22_Witness ==
    /\ op = "refresh"
    /\ pc = "returned"
    /\ datesOf(result) \cap datesOf(workoutsAtClick) # {}
    /\ datesOf(workoutsAtClick) \ datesOf(result) # {}

\* C23 as stated: every value getWorkoutHistory and fetchNewWorkouts pass to
\* the progress callback is an integer from 0 to 100
C23_ProgressWithinRange ==
    \A p \in reported : p \in 0..100

\* C24 as stated: whenever getWorkoutHistory returns, it has reported
\* progress 100
C24_ReturnReportsHundred ==
    (op = "fullSync" /\ pc = "returned") => 100 \in reported

RECURSIVE SumOver(_, _)
\* the sum of f over the finite set S
SumOver(S, f) ==
    IF S = {} THEN 0
    ELSE LET x == CHOOSE y \in S : TRUE IN f[x] + SumOver(S \ {x}, f)

\* the (exercise, set) positions of a workout
setPositions(workout) ==
    {p \in (1..MaxVolumeExercises) \X (1..MaxVolumeSets) :
        /\ p[1] <= Len(workout.exercises)
        /\ p[2] <= Len(workout.exercises[p[1]].sets)}

\* repetitions times load of the set at a position, 0 when either is absent
\* or zero
setVolume(workout, p) ==
    LET set == workout.exercises[p[1]].sets[p[2]] IN
    IF set.rawValue1 \in {Missing, 0} \/ set.rawValue2 \in {Missing, 0} THEN 0
    ELSE set.rawValue1 * set.rawValue2

\* C25: calculateWorkoutVolume returns the sum, over every set of every
\* exercise, of rawValue1 * rawValue2, a set with an absent or zero value
\* counting 0; for one exercise with the sets (5, 225) and (3, 275) it
\* returns 1950
C25_VolumeIsSumOfProducts ==
    (op = "calculateWorkoutVolume" /\ pc = "returned") =>
        /\ result = <<SumOver(setPositions(workouts[1]),
                              [p \in setPositions(workouts[1]) |-> setVolume(workouts[1], p)])>>
        /\ (/\ Len(workouts[1].exercises) = 1
            /\ workouts[1].exercises[1].sets = <<ExSet(1, 5, 225), ExSet(1, 3, 275)>>)
               => result = <<1950>>

\* the volume of the workout with the sets (5, 225) and (3, 275) was computed
C25_Witness ==
    /\ op = "calculateWorkoutVolume"
    /\ pc = "returned"
    /\ Len(workouts[1].exercises) = 1
    /\ workouts[1].exercises[1].sets = <<ExSet(1, 5, 225), ExSet(1, 3, 275)>>
    /\ result = <<1950>>

\* the ids of an exercise list
idsOf(list) == {list[i].id : i \in 1..Len(list)}

\* the exercises of the account's list that the exercise stats of a workout
\* of the range answer name, the workout being new to the cached list or
\* dated within the last three days
referencedIds ==
    {id \in idsOf(remoteExercises(account)) :
        \E r \in Range(recentWorkouts) :
            /\ \/ \A j \in 1..Len(existingWorkouts) :
                      existingWorkouts[j].programWorkoutId # r.id
               \/ r.date >= Today - RecentDays
            /\ id \in Range(r.exercise_stats)}

C27_NoCacheFetchesEverything ==
    /\ []((op = "fullSync" /\ pc \in {"detail", "returned"} /\ existingWorkouts = <<>>) =>
             /\ calls.listWorkoutsInRange = 0
             /\ calls.listKnownExercises <= 1
             /\ writes[CACHE_KEYS.EXERCISES] = calls.listKnownExercises
             /\ exercises = remoteExercises(account))
    /\ []((op = "fullSync" /\ pc = "returned" /\ existingWorkouts = <<>>) =>
             requested = [k \in 1..account |-> remoteExercises(account)[k].id])
    /\ [][(op = "fullSync" /\ op' = "fullSync" /\ existingWorkouts' = <<>>
              /\ pc' \in {"detail", "returned"} /\ clears' = clears
              /\ store[CACHE_KEYS.EXERCISES] # <<>>) =>
             store'[CACHE_KEYS.EXERCISES] = store[CACHE_KEYS.EXERCISES]]_vars

\* a full sync without cached workouts has requested every exercise and
\* returned
C27_Witness ==
    /\ op = "fullSync"
    /\ pc = "returned"
    /\ existingWorkouts = <<>>
    /\ Len(requested) = account
    /\ calls.fetchExerciseDetail = account
    /\ Len(result) > 0

\* position a comes before position b in the iteration over the results and
\* their histories
comesBefore(a, b) == a[1] < b[1] \/ (a[1] = b[1] /\ a[2] < b[2])

\* the entries of the results that offer exercise id a record on date d
offers(results, id, d) ==
    {a \in entriesOf(results) :
        /\ results[a[1]].exercise.id = id
        /\ results[a[1]].exerciseHistory[a[2]].dateCompleted = d
        /\ results[a[1]].exerciseHistory[a[2]].hasSets}

\* C28: when the results of a merge pass hold several entries of one
\* exercise id for one date, the WorkoutExercise of that date carries the
\* numbered sets and the bestEstimated1RM of the first of them in iteration
\* order, and a record the map held before the pass is left as it was
C28_FirstEntryWins ==
    (pc = "merged") =>
        \A d \in DOMAIN workoutsByDate :
            \A i \in 1..Len(workoutsByDate[d].exercises) :
                LET x == workoutsByDate[d].exercises[i]
                    from == offers(exerciseResults, x.id, d)
                IN IF <<d, i>> \in appended(workoutsByDate, seedMap)
                   THEN \E a \in from :
                           LET h == exerciseResults[a[1]].exerciseHistory[a[2]] IN
                           /\ \A b \in from \ {a} : comesBefore(a, b)
                           /\ x.sets = SelectSeq(h.sets, LAMBDA s : s.setNumber # NonNumeric)
                           /\ x.bestEstimated1RM = h.bestEstimated1RM
                   ELSE x = seedMap[d].exercises[i]

\* a merge whose results held two entries of one exercise and date with
\* different bestEstimated1RM, and the record has the first one's
C28_Witness ==
    /\ pc = "merged"
    /\ \E d \in DOMAIN workoutsByDate :
          \E x \in Range(workoutsByDate[d].exercises) :
              \E a, b \in offers(exerciseResults, x.id, d) :
                  /\ comesBefore(a, b)
                  /\ a[1] # b[1]
                  /\ exerciseResults[a[1]].exerciseHistory[a[2]].bestEstimated1RM = 120
                  /\ exerciseResults[b[1]].exerciseHistory[b[2]].bestEstimated1RM = 110
                  /\ x.bestEstimated1RM = 120

\* the history getWorkoutHistory holds for exercise e given the gateway's
\* answer for it: the fetched history, none when the answer has no history,
\* and on a failure the history the store held when the pass began
historyGiven(e) ==
    IF gatewayDetail[e] = "ok" THEN remoteHistory(e, remoteVer)
    ELSE IF gatewayDetail[e] = "throw" /\ storeAtStart[historyKey(e)] # <<>>
    THEN storeAtStart[historyKey(e)][1].data
    ELSE <<>>

\* the results of the pass in the order of the exercise list
resultsInListOrder ==
    [k \in 1..Len(exercises) |->
        [exercise |-> exercises[k], exerciseHistory |-> historyGiven(exercises[k].id)]]

\* C29: the list getWorkoutHistory returns and stores is determined by the
\* cached workouts, the exercise list and the gateway's answers: it is the
\* merge of the answers taken in the order of the exercise list, whatever
\* the order in which the detail requests of a batch were answered
C29_CompletionOrderIrrelevant ==
    (/\ op = "fullSync"
     /\ pc = "returned"
     /\ batches > 0
     /\ (caller = "handleLogin" \/ isAuthenticated)) =>
        /\ result = sortedWorkouts(mergeResults(seedWorkouts(EmptyMap, existingWorkouts),
                                                resultsInListOrder))
        /\ store[CACHE_KEYS.WORKOUTS] = <<result>>

\* a full sync returned whose first exercise's request failed and fell back
\* to the cached history while a later one of the batch succeeded
C29_Witness ==
    /\ op = "fullSync"
    /\ pc = "returned"
    /\ Len(requested) >= 2
    /\ gatewayDetail[requested[1]] = "throw"
    /\ storeAtStart[historyKey(requested[1])] # <<>>
    /\ gatewayDetail[requested[2]] = "ok"
    /\ isAuthenticated
    /\ Len(result) > 0

\* the latest date of a non-empty workout list
maxDateOf(list) == CHOOSE d \in datesOf(list) : \A other \in datesOf(list) : d >= other

\* C30: whenever getWorkoutHistory asks for the recent workouts, the start
\* date it passes is the latest date among the cached workouts it read (the
\* epoch floor stands in only for an empty list, for which it does not ask),
\* and the answer it takes is the range from that date
C30_RangeStartsAtLatestCachedDate ==
    /\ []((op = "fullSync" /\ pc = "range") =>
             /\ Len(existingWorkouts) > 0
             /\ mostRecentDateOf(existingWorkouts) = maxDateOf(existingWorkouts)
             /\ mostRecentDateOf(existingWorkouts) # EpochFloor)
    /\ [][(op = "fullSync" /\ pc = "range" /\ pc' = "exerciseListAgain") =>
             \E withStats \in BOOLEAN :
                 recentWorkouts' = remoteRange(account, remoteVer,
                                               maxDateOf(existingWorkouts), withStats)]_vars

\* a full sync is asking for the recent workouts with cached workouts of
\* several dates
C30_Witness ==
    /\ op = "fullSync"
    /\ pc = "range"
    /\ Cardinality(datesOf(existingWorkouts)) >= 2

\* C31 as stated: whatever the clicks, the App awaits at most one sync call
\* at a time
C31_SyncCallsSerialized ==
    Len(appCalls.inFlight) <= 1

\* the dates on which the remote history of exercise e holds an entry that
\* has a date and a counted set
datedEntriesOf(e) ==
    {h.dateCompleted : h \in {x \in Range(remoteHistory(e, remoteVer)) :
                                 /\ x.dateCompleted # NoDate
                                 /\ x.hasSets
                                 /\ validSetsOf(x.sets) # <<>>}}

\* a full sync that read cached workouts and no history of exercise e has
\* returned, every gateway call of it having succeeded: the one failed call of
\* the behaviour was the detail request of e in the first full sync
laterPassSucceeded(e) ==
    /\ op = "fullSync"
    /\ pc = "returned"
    /\ clears = 0
    /\ faults = 1
    /\ storeAtStart[CACHE_KEYS.WORKOUTS] # <<>>
    /\ storeAtStart[historyKey(e)] = <<>>
    /\ calls.listWorkoutsInRange = 1
    /\ recentWorkouts = remoteRange(account, remoteVer,
                                    maxDateOf(existingWorkouts), TRUE)
    /\ \A x \in ExerciseIds : gatewayDetail[x] \in {"none", "ok"}

\* C32 as stated: once a later full sync succeeds in every gateway call, the
\* stored workouts hold the exercise whose detail request had failed on every
\* date of its remote history
C32_AbsorbedFailureRepaired ==
    \A e \in 1..account :
        laterPassSucceeded(e) =>
            \A d \in datedEntriesOf(e) :
                recordsOf(store[CACHE_KEYS.WORKOUTS][1], d, e) # {}

\* Reset Cache was clicked while the running full sync was in flight: the
\* handlers that start one with the dashboard shown leave isAuthenticated
\* true, and only handleClearCache sets it false
clearedInFlight ==
    /\ op = "fullSync"
    /\ caller \in {"handleLogin.cached", "handleRefresh"}
    /\ ~isAuthenticated

\* C33 as stated: a full sync during which Reset Cache was clicked completes
\* with the store holding no workouts, auth or exercise-list entry, and no
\* exercise-history entry that the reset removed comes back while it runs
C33_ResetNotUndone ==
    /\ []((clearedInFlight /\ pc = "returned") =>
             /\ store[CACHE_KEYS.WORKOUTS] = <<>>
             /\ store[CACHE_KEYS.AUTH] = <<>>
             /\ store[CACHE_KEYS.EXERCISES] = <<>>)
    /\ [][clearedInFlight =>
             \A e \in ExerciseIds :
                 store[historyKey(e)] = <<>> => store'[historyKey(e)] = <<>>]_vars

\* the running full sync found an auth entry in the store
authWasCached ==
    /\ op = "fullSync"
    /\ storeAtStart[CACHE_KEYS.AUTH] # <<>>

\* what a getWorkoutHistory call may be handed as email and password
AnyCredentials == Credentials \cup {EmptyCredentials}

\* the answers the gateway may give to the call a full sync waits for
AnyOutcome == {"ok", "nodata", "throw", "nostats", "empty"}

\* the full sync w after the gateway answered the call it waits for (the
\* detail request of `position` when it waits for details)
afterAnswer(w, outcome, position) ==
    CASE w.pc = "exerciseList" -> exerciseListResolved(w, outcome, {})
      [] w.pc = "range" -> rangeResolved(w, outcome, {})
      [] w.pc = "exerciseListAgain" -> exerciseListAgainResolved(w, outcome, {})
      [] w.pc = "detail" -> detailResolved(w, position, outcome, {})
      [] OTHER -> w

C36_RefreshNeverRejects ==
    /\ [](op = "refresh" => pc # "rejected")
    /\ []((op = "refresh" /\ sessionToken = 0) =>
             /\ pc = "returned"
             /\ result = <<>>
             /\ calls = NoCalls
             /\ reported = {})
    /\ [][(op = "refresh" /\ pc = "range" /\ pc' # "range"
              /\ (faults' > faults \/ recentWorkouts' = <<>>)) =>
             /\ pc' = "returned"
             /\ result' = <<>>
             /\ 100 \in reported'
             /\ calls' = calls]_vars
    /\ [][(op = "refresh" /\ pc = "exerciseList" /\ faults' > faults) =>
             /\ pc' = "returned"
             /\ result' = <<>>
             /\ 100 \in reported'
             /\ calls' = calls]_vars

\* a fetchNewWorkouts whose exercise-list query failed has resolved
C36_Witness ==
    /\ op = "refresh"
    /\ pc = "returned"
    /\ calls.listKnownExercises = 1
    /\ calls.fetchExerciseDetail = 0
    /\ recentWorkouts # <<>>
    /\ exercises = <<>>
    /\ result = <<>>
    /\ 100 \in reported
    /\ 50 \notin reported

\* C37: a getWorkoutHistory or fetchNewWorkouts call that waits for the
\* gateway eventually returns or rejects, given that every gateway call is
\* eventually answered
C37_SyncTerminates ==
    (op \in {"fullSync", "refresh"} /\ pc \notin {"returned", "rejected"})
        ~> (pc \in {"returned", "rejected"})

\* a sync that waited for the answers of two batches of detail requests, one
\* of them a failure, has returned
C37_Witness ==
    /\ op \in {"fullSync", "refresh"}
    /\ pc = "returned"
    /\ batches >= 2
    /\ \E e \in ExerciseIds : gatewayDetail[e] = "throw"

\* C38: clearAllCaches leaves every key that does not start with
\* "trainheroic_" as it was: present with the same value, or absent
C38_ClearKeepsForeignKeys ==
    (op = "clearAllCaches" /\ pc = "returned") =>
        \A k \in AllKeys :
            ~startsWithAppPrefix(k) => store[k] = storeAtStart[k]

\* clearAllCaches has removed application keys from a store that also holds
\* the other application's key
C38_Witness ==
    /\ op = "clearAllCaches"
    /\ pc = "returned"
    /\ storeAtStart[OtherKey] = <<"light">>
    /\ store[OtherKey] = <<"light">>
    /\ storeAtStart[CACHE_KEYS.WORKOUTS] # <<>>
    /\ storeAtStart[historyKey(1)] # <<>>
    /\ store[historyKey(1)] = <<>>

====
